---- MODULE Spec2Model ----
(***************************************************************************)
(* Model of the in-process memory store of mcp-memory-system               *)
(* (memory_store.go, mcp_server.go).                                       *)
(*                                                                         *)
(* Representation                                                          *)
(*   - Go's *Memory pointers are addresses into `objs` (the Memory objects *)
(*     ever handed to Store, in allocation order).  The table and every    *)
(*     index hold addresses, so one in-place mutation is seen through      *)
(*     every index, and an index may keep an object the table dropped.     *)
(*   - float32 importance is an integer count of 1/ImpScale; time is an    *)
(*     integer count of 1/UnitsPerHour hours; a decay rate is importance   *)
(*     units lost per time unit (Decay 0.01/hour = 1 unit per half hour).  *)
(*   - Content is a sequence of one-character strings.                     *)
(*   - The hour bucket key "2006-01-02-15" is modelled by the hour number: *)
(*     the fixed-width format orders keys as the hours are ordered.        *)
(***************************************************************************)
EXTENDS Integers, Sequences, FiniteSets, TLC

VARIABLES
    ms,        \* the MemoryStore: table, indexes, relation graph, maxMemories
    objs,      \* the Memory objects, by address (1..Len(objs))
    now,       \* the wall clock, in time units
    panicked,  \* TRUE once a handler has panicked (the process is gone)
    lastOp,    \* the last call made and what it returned
    calls,     \* the calls and passes run so far
    mu,        \* ms.mu, the outer sync.RWMutex: [writer, readers]
    pc,        \* per worker: the step of the handler it is in
    loc,       \* per worker: the locals of the handler it is in
    config,    \* the Config that main got from LoadConfig
    pipe,      \* the unix socket at pipePath: the peer listening on it, if any
    cm         \* per peer process: its ConnectionManager

vars == <<ms, objs, now, panicked, lastOp, calls, mu, pc, loc, config, pipe, cm>>

procVars == <<mu, pc, loc>>   \* the workers and the lock

hostVars == <<config, pipe, cm>>   \* what lies outside the store

----------------------------------------------------------------------------
(* Bounds of the model *)

MaxCap == 2          \* largest configured maxMemories explored (0..MaxCap)
MaxCalls == 5        \* calls, maintenance passes and clock readings in one run

(* Program constants *)

ImpScale == 200              \* importance 1.0
UnitsPerHour == 2            \* time units in an hour
DecayThreshold == 20         \* importance 0.1 (applyDecay)
ConsolidateImportance == 140 \* importance 0.7 (consolidateMemories)
ConsolidateAccess == 3       \* AccessCount > 3 (consolidateMemories)
RetentionHours == 168        \* 7 days (cleanupTimeBuckets)
DefaultLimit == 10           \* Query: limit 0
MaxLimit == 1000             \* Query: largest limit
StrScale == 100              \* relation strength 1.0
DefaultStrength == 50        \* CreateRelation: strength 0.5
EmbScale == 100              \* a unit-length component

----------------------------------------------------------------------------
(* Types *)

ShortTerm == "short_term"
LongTerm == "long_term"
Episodic == "episodic"
Semantic == "semantic"
Procedural == "procedural"

MemoryTypes == {ShortTerm, LongTerm, Episodic, Semantic, Procedural}

NoEmbedding == <<>>      \* a nil Embedding slice
NoId == ""               \* the empty string
None == "none"           \* no worker / no value

Ids == {"a", "b", "c"}

----------------------------------------------------------------------------
(* Text: extractWords, strings.ToLower *)

Letters == {"a", "b", "c", "d", "g", "o", "t", "C", "D"}
Digits == {"5"}

ToLowerChar(c) ==
    CASE c = "C" -> "c"
      [] c = "D" -> "d"
      [] OTHER -> c

ToLower(w) == [i \in 1..Len(w) |-> ToLowerChar(w[i])]

IsSeparator(c) == ~(c \in Letters \cup Digits)

\* strings.FieldsFunc: the maximal runs of non-separator characters, in order
RECURSIVE FieldsFrom(_, _, _)
FieldsFrom(text, i, cur) ==
    IF i > Len(text)
    THEN IF cur = <<>> THEN <<>> ELSE <<cur>>
    ELSE IF IsSeparator(text[i])
         THEN IF cur = <<>>
              THEN FieldsFrom(text, i + 1, <<>>)
              ELSE <<cur>> \o FieldsFrom(text, i + 1, <<>>)
         ELSE FieldsFrom(text, i + 1, Append(cur, text[i]))

extractWords(text) == FieldsFrom(text, 1, <<>>)

\* the words addToKeywordIndex / removeFromKeywordIndex index a content under
IndexWords(content) ==
    LET words == extractWords(content)
    IN {ToLower(words[i]) : i \in {j \in 1..Len(words) : Len(words[j]) >= 3}}

----------------------------------------------------------------------------
(* Vectors: normalizeVector, dotProduct (fixed point, EmbScale = 1.0) *)

ISqrt(n) == CHOOSE r \in 0..n : r * r <= n /\ (r + 1) * (r + 1) > n

RECURSIVE SumSq(_, _)
SumSq(v, i) == IF i > Len(v) THEN 0 ELSE v[i] * v[i] + SumSq(v, i + 1)

normalizeVector(v) ==
    LET norm == ISqrt(SumSq(v, 1))
    IN IF norm = 0
       THEN v
       ELSE [i \in 1..Len(v) |-> (v[i] * EmbScale) \div norm]

RECURSIVE DotFrom(_, _, _)
DotFrom(a, b, i) == IF i > Len(a) THEN 0 ELSE a[i] * b[i] + DotFrom(a, b, i + 1)

dotProduct(a, b) == DotFrom(a, b, 1)

----------------------------------------------------------------------------
(* Maps with a varying key set *)

EmptyMap == <<>>

Has(m, k) == k \in DOMAIN m

MapPut(m, k, v) == [x \in (DOMAIN m) \cup {k} |-> IF x = k THEN v ELSE m[x]]

MapDelete(m, k) == [x \in (DOMAIN m) \ {k} |-> m[x]]

Range(s) == {s[i] : i \in DOMAIN s}

----------------------------------------------------------------------------
(* Time *)

ZeroTime == 0                      \* the zero time.Time of an unset Timestamp
NowInit == 400                     \* the wall clock at start-up
RetentionUnits == RetentionHours * UnitsPerHour
\* the instants the clock is read at: start-up, an hour later, a week later
Instants == {NowInit, NowInit + UnitsPerHour, NowInit + UnitsPerHour + RetentionUnits}

\* Timestamp.Format("2006-01-02-15"): the hour the time lies in
BucketKey(t) == t \div UnitsPerHour

----------------------------------------------------------------------------
(* The store: NewMemoryStore *)

StoreDecayMinutes == 5             \* decayInterval: 5 * time.Minute
EmbeddingDimension == 2            \* EmbeddingIndex.dimension (384), scaled down

NewMemoryStore(maxMemories) ==
    [ memories       |-> EmptyMap,
      typeIndex      |-> [t \in MemoryTypes |-> EmptyMap],
      timeIndex      |-> EmptyMap,
      embeddingIndex |-> EmptyMap,
      dimension      |-> EmbeddingDimension,  \* embeddingIndex.dimension
      keywordIndex   |-> EmptyMap,
      relations      |-> EmptyMap,
      maxMemories    |-> maxMemories,
      decayInterval  |-> StoreDecayMinutes,
      ctxDone        |-> FALSE,     \* ms.ctx, cancelled by ms.cancel()
      shutdownClosed |-> FALSE ]    \* ms.shutdownChan, closed by Shutdown

----------------------------------------------------------------------------
(* Index maintenance *)

addToTimeIndex(s, o, a) ==
    LET bucket == BucketKey(o[a].timestamp)
        old == IF Has(s.timeIndex, bucket) THEN s.timeIndex[bucket] ELSE <<>>
    IN [s EXCEPT !.timeIndex = MapPut(@, bucket, Append(old, a))]

RECURSIVE AddWords(_, _, _, _)
AddWords(index, words, id, a) ==
    IF words = {}
    THEN index
    ELSE LET w == CHOOSE x \in words : TRUE
             entry == IF Has(index, w) THEN index[w] ELSE EmptyMap
         IN AddWords(MapPut(index, w, MapPut(entry, id, a)), words \ {w}, id, a)

addToKeywordIndex(s, o, a) ==
    [s EXCEPT !.keywordIndex = AddWords(@, IndexWords(o[a].content), o[a].id, a)]

RECURSIVE RemoveWords(_, _, _)
RemoveWords(index, words, id) ==
    IF words = {}
    THEN index
    ELSE LET w == CHOOSE x \in words : TRUE
             rest == words \ {w}
         IN IF ~Has(index, w)
            THEN RemoveWords(index, rest, id)
            ELSE LET entry == MapDelete(index[w], id)
                 IN IF DOMAIN entry = {}
                    THEN RemoveWords(MapDelete(index, w), rest, id)
                    ELSE RemoveWords(MapPut(index, w, entry), rest, id)

removeFromKeywordIndex_Skip(s, mem) == s

removeFromKeywordIndex(s, mem) ==
    [s EXCEPT !.keywordIndex = RemoveWords(@, IndexWords(mem.content), mem.id)]

cleanupTimeBuckets_Never(s, t) == s

cleanupTimeBuckets(s, t) ==
    LET cutoffStr == BucketKey(t - RetentionUnits)
        keep == {b \in DOMAIN s.timeIndex : ~(b < cutoffStr)}
    IN [s EXCEPT !.timeIndex = [b \in keep |-> s.timeIndex[b]]]

removeMemory_KeepsEdges(s, o, id, t) ==
    IF ~Has(s.memories, id)
    THEN s
    ELSE LET mem == o[s.memories[id]]
             s1 == [s EXCEPT
                      !.memories = MapDelete(@, id),
                      !.typeIndex = IF mem.type \in DOMAIN @
                                    THEN [@ EXCEPT ![mem.type] = MapDelete(@, id)]
                                    ELSE @,
                      !.embeddingIndex = MapDelete(@, id)]
         IN cleanupTimeBuckets(removeFromKeywordIndex(s1, mem), t)

removeMemory(s, o, id, t) ==
    IF ~Has(s.memories, id)
    THEN s
    ELSE LET mem == o[s.memories[id]]
             s1 == [s EXCEPT
                      !.memories = MapDelete(@, id),
                      !.typeIndex = IF mem.type \in DOMAIN @
                                    THEN [@ EXCEPT ![mem.type] = MapDelete(@, id)]
                                    ELSE @,
                      !.relations = MapDelete(@, id),
                      !.embeddingIndex = MapDelete(@, id)]
         IN cleanupTimeBuckets(removeFromKeywordIndex(s1, mem), t)

\* the ids evictLeastImportant can end its scan on: a strict "<" keeps the
\* first minimum met, and the iteration order of the map is unspecified
LeastImportant(s, o) ==
    {id \in DOMAIN s.memories :
        \A other \in DOMAIN s.memories :
            o[s.memories[id]].importance <= o[s.memories[other]].importance}

evictLeastImportant(s, o, leastID, t) ==
    IF leastID # NoId THEN removeMemory(s, o, leastID, t) ELSE s

----------------------------------------------------------------------------
(* The calls made on the store *)

CatDog == <<"C", "a", "t", " ", "d", "o", "g">>
Cat == <<"c", "a", "t">>
AbDog5 == <<"a", "b", "-", "D", "o", "g", "5">>
Contents == {CatDog, Cat, AbDog5}

BogusType == "bogus"     \* a MemoryType outside the five

\* the *Memory values the callers build (id and times filled in by MemoryOf):
\* fresh ones carry Timestamp = LastAccess = time.Now(), as StoreMemory sets
\* them; the others leave both unset, as a direct caller of Store may
P1 == [type |-> ShortTerm, content |-> CatDog, embedding |-> <<3, 4>>,
       metadata |-> "m1", accessCount |-> 0, importance |-> 160, decay |-> 1,
       fresh |-> TRUE]
P2 == [type |-> ShortTerm, content |-> Cat, embedding |-> NoEmbedding,
       metadata |-> "m2", accessCount |-> 3, importance |-> 21, decay |-> 1,
       fresh |-> TRUE]
P3 == [type |-> Episodic, content |-> AbDog5, embedding |-> <<0, 2>>,
       metadata |-> "m1", accessCount |-> 0, importance |-> 20, decay |-> 0,
       fresh |-> FALSE]

ProfilesOf(id) ==
    CASE id = "a" -> {P1, P2}
      [] id = "b" -> {P2}
      [] OTHER -> {P3}

MemoryOf(id, p, t) ==
    [ id          |-> id,
      type        |-> p.type,
      content     |-> p.content,
      embedding   |-> p.embedding,
      metadata    |-> p.metadata,
      timestamp   |-> IF p.fresh THEN t ELSE ZeroTime,
      lastAccess  |-> IF p.fresh THEN t ELSE ZeroTime,
      accessCount |-> p.accessCount,
      importance  |-> p.importance,
      decay       |-> p.decay ]

NilMemory == [nil |-> TRUE]
IsNil(req) == DOMAIN req = {"nil"}

ValidMemories(t) == UNION {{MemoryOf(id, p, t) : p \in ProfilesOf(id)} : id \in Ids}

\* one Memory per way Store can refuse or fail
InvalidMemories(t) ==
    LET m == MemoryOf("a", P1, t)
    IN { [m EXCEPT !.id = NoId],
         [m EXCEPT !.content = <<>>],
         [m EXCEPT !.importance = 0 - 20],
         [m EXCEPT !.importance = ImpScale + 20] }

BogusMemories(t) ==
    {[MemoryOf("b", P2, t) EXCEPT !.type = BogusType]}

----------------------------------------------------------------------------
(* What a call returned *)

NoError == "ok"
ErrValidation == "validation"
ErrConflict == "conflict"
ErrNotFound == "not_found"
Panic == "panic"

\* strategy, criteria: the branch of Query's switch that produced the results,
\* and the criteria it was given
Returned(op, err, results, removed) ==
    [op |-> op, err |-> err, results |-> results, removed |-> removed,
     strategy |-> None, criteria |-> None, stats |-> None]

Strategies == {"similarity", "temporal", "type", "related"}

\* the switch of Query: any other query type falls to the keyword lookup
StrategyOf(criteria) ==
    IF criteria.type \in Strategies THEN criteria.type ELSE "keywords"

Workers == {"w1", "w2"}             \* goroutines serving client calls
DecayTask == "decay"                \* go store.startDecayProcess()
ConsolidationTask == "consolidation" \* go store.startConsolidationProcess()
Procs == Workers \cup {DecayTask, ConsolidationTask}

NoLocals == [op |-> None]

\* a call can start: the process is alive and the run has calls left
Running == ~panicked /\ calls < MaxCalls

----------------------------------------------------------------------------
(* MemoryStore.Store *)

StoreValidationFails_NoContentCheck(req) ==
    \/ IsNil(req)
    \/ req.id = NoId
    \/ req.importance < 0
    \/ req.importance > ImpScale

StoreValidationFails(req) ==
    \/ IsNil(req)
    \/ req.id = NoId
    \/ req.content = <<>>
    \/ req.importance < 0
    \/ req.importance > ImpScale

\* Store from line 180 on, once leastID is the record the eviction scan ended on
\* (NoId: no eviction, or an empty table): the new store, objects and outcome
IsDuplicate_Never(s, req) == FALSE

IsDuplicate(s, req) == Has(s.memories, req.id)

\* ms.memories[memory.ID] = memory: the object gets address a
StorePut(s, req, a) == [s EXCEPT !.memories = MapPut(@, req.id, a)]

\* ms.typeIndex[memory.Type][memory.ID] = memory panics on a type outside the
\* five: the inner map is nil
TypeIndexPanics(s, req) == ~(req.type \in DOMAIN s.typeIndex)

StoreTypeIndex_Skip(s, req, a) == s

StoreTypeIndex(s, req, a) == [s EXCEPT !.typeIndex[req.type] = MapPut(@, req.id, a)]

StoreEmbedding(s, req) ==
    IF req.embedding # NoEmbedding
    THEN [s EXCEPT !.embeddingIndex = MapPut(@, req.id, normalizeVector(req.embedding))]
    ELSE s

StoreInsert(s, o, t, req, leastID) ==
    LET a == Len(o) + 1
        o1 == Append(o, req)
        s1 == StorePut(evictLeastImportant(s, o, leastID, t), req, a)
    IN IF TypeIndexPanics(s1, req)
       THEN [ms |-> s1, objs |-> o1, err |-> Panic]
       ELSE LET s2 == StoreTypeIndex(s1, req, a)
                s3 == addToKeywordIndex(addToTimeIndex(s2, o1, a), o1, a)
            IN [ms |-> StoreEmbedding(s3, req), objs |-> o1, err |-> NoError]

\* the records the capacity check of Store can evict
EvictionChoices(s, o) ==
    IF Cardinality(DOMAIN s.memories) >= s.maxMemories /\ DOMAIN s.memories # {}
    THEN LeastImportant(s, o)
    ELSE {NoId}

Store(req) ==
    /\ Running
    /\ IF StoreValidationFails(req)
       THEN /\ lastOp' = Returned("Store", ErrValidation, <<>>, {})
            /\ UNCHANGED <<ms, objs, panicked, hostVars>>
       ELSE IF IsDuplicate(ms, req)
       THEN /\ lastOp' = Returned("Store", ErrConflict, <<>>, {})
            /\ UNCHANGED <<ms, objs, panicked, hostVars>>
       ELSE /\ \E leastID \in EvictionChoices(ms, objs) :
                 LET r == StoreInsert(ms, objs, now, req, leastID)
                 IN /\ ms' = r.ms
                    /\ objs' = r.objs
                    /\ panicked' = (r.err = Panic)
                    /\ lastOp' = Returned("Store", r.err, <<>>,
                                          {leastID} \ {NoId})
    /\ calls' = calls + 1
    /\ UNCHANGED <<now, procVars, hostVars>>

StoreCall ==
    \E req \in ValidMemories(now) \cup InvalidMemories(now) \cup BogusMemories(now)
               \cup {NilMemory} :
        Store(req)

----------------------------------------------------------------------------
(* MemoryStore.applyDecay *)

\* the objects after the decay loop: every record of the table loses
\* hours-since-LastAccess x Decay
DecayedObjs(s, o, t) ==
    [a \in 1..Len(o) |->
        IF a \in Range(s.memories)
        THEN [o[a] EXCEPT !.importance = @ - (t - o[a].lastAccess) * o[a].decay]
        ELSE o[a]]

DecayToRemove_Inclusive(s, o) ==
    {id \in DOMAIN s.memories : o[s.memories[id]].importance <= DecayThreshold}

DecayToRemove(s, o) ==
    {id \in DOMAIN s.memories : o[s.memories[id]].importance < DecayThreshold}

RECURSIVE RemoveAll(_, _, _, _)
RemoveAll(s, o, ids, t) ==
    IF ids = {}
    THEN s
    ELSE LET id == CHOOSE x \in ids : TRUE
         IN RemoveAll(removeMemory(s, o, id, t), o, ids \ {id}, t)

applyDecay ==
    /\ Running
    /\ LET o1 == DecayedObjs(ms, objs, now)
           toRemove == DecayToRemove(ms, o1)
       IN /\ objs' = o1
          /\ ms' = RemoveAll(ms, o1, toRemove, now)
          /\ lastOp' = Returned("applyDecay", NoError, <<>>, toRemove)
    /\ calls' = calls + 1
    /\ UNCHANGED <<now, panicked, procVars, hostVars>>

----------------------------------------------------------------------------
(* MemoryStore.consolidateMemories *)

ShouldConsolidate_Both(mem) ==
    mem.accessCount > ConsolidateAccess /\ mem.importance > ConsolidateImportance

ShouldConsolidate(mem) ==
    mem.accessCount > ConsolidateAccess \/ mem.importance > ConsolidateImportance

\* rel.Strength *= 1.2
Strengthen(strength) == (strength * 12) \div 10

Promoted(s, o) ==
    {id \in DOMAIN s.typeIndex[ShortTerm] :
        ShouldConsolidate(o[s.typeIndex[ShortTerm][id]])}

ConsolidatedObjs(s, o) ==
    LET addrs == {s.typeIndex[ShortTerm][id] : id \in Promoted(s, o)}
    IN [a \in 1..Len(o) |->
          IF a \in addrs THEN [o[a] EXCEPT !.type = LongTerm] ELSE o[a]]

ConsolidatedStore_Restrengthens(s, o) ==
    LET short == s.typeIndex[ShortTerm]
        promoted == Promoted(s, o)
        long == s.typeIndex[LongTerm]
    IN [s EXCEPT
          !.typeIndex[ShortTerm] = [id \in DOMAIN short \ promoted |-> short[id]],
          !.typeIndex[LongTerm] =
              [id \in DOMAIN long \cup promoted |->
                  IF id \in promoted THEN short[id] ELSE long[id]],
          !.relations =
              [id \in DOMAIN @ |->
                  IF id \in promoted \cup DOMAIN long
                  THEN [i \in 1..Len(@[id]) |->
                          [@[id][i] EXCEPT !.strength = Strengthen(@)]]
                  ELSE @[id]]]

ConsolidatedStore_KeepsTypeIndex(s, o) == s

ConsolidatedStore(s, o) ==
    LET short == s.typeIndex[ShortTerm]
        promoted == Promoted(s, o)
        long == s.typeIndex[LongTerm]
    IN [s EXCEPT
          !.typeIndex[ShortTerm] = [id \in DOMAIN short \ promoted |-> short[id]],
          !.typeIndex[LongTerm] =
              [id \in DOMAIN long \cup promoted |->
                  IF id \in promoted THEN short[id] ELSE long[id]],
          !.relations =
              [id \in DOMAIN @ |->
                  IF id \in promoted
                  THEN [i \in 1..Len(@[id]) |->
                          [@[id][i] EXCEPT !.strength = Strengthen(@)]]
                  ELSE @[id]]]

consolidateMemories ==
    /\ Running
    /\ objs' = ConsolidatedObjs(ms, objs)
    /\ ms' = ConsolidatedStore(ms, objs)
    /\ lastOp' = Returned("consolidateMemories", NoError, <<>>, {})
    /\ calls' = calls + 1
    /\ UNCHANGED <<now, panicked, procVars, hostVars>>

----------------------------------------------------------------------------
(* MCPServer.CreateRelation *)

RelationArg(from, to, relType, strength) ==
    [from |-> from, to |-> to, type |-> relType, strength |-> strength]

\* the CreateRelation calls made: a cycle, a self-loop, a chain, a strength
\* of 1.5, and one call per argument check
RelationArgs ==
    { RelationArg("a", "b", "causes", StrScale),
      RelationArg("b", "a", "causes", StrScale + 50),
      RelationArg("a", "a", "causes", StrScale),
      RelationArg("b", "c", "causes", StrScale),
      RelationArg(NoId, "b", "causes", StrScale),
      RelationArg("a", NoId, "causes", StrScale),
      RelationArg("a", "b", "", StrScale) }

EdgeCount(s) ==
    LET RECURSIVE Sum(_)
        Sum(ids) == IF ids = {} THEN 0
                    ELSE LET id == CHOOSE x \in ids : TRUE
                         IN Len(s.relations[id]) + Sum(ids \ {id})
    IN Sum(DOMAIN s.relations)

RelationArgsInvalid_NoTypeCheck(from, to, relType) == from = NoId \/ to = NoId

RelationArgsInvalid(from, to, relType) == from = NoId \/ to = NoId \/ relType = ""

ClampStrength_Identity(strength) == strength

ClampStrength(strength) ==
    IF strength < 0 \/ strength > StrScale THEN DefaultStrength ELSE strength

AppendRelation(s, from, to, relType, strength) ==
    LET relation == [from |-> from, to |-> to, type |-> relType,
                     strength |-> ClampStrength(strength)]
        old == IF Has(s.relations, from) THEN s.relations[from] ELSE <<>>
    IN [s EXCEPT !.relations = MapPut(@, from, Append(old, relation))]

CreateRelation(from, to, relType, strength) ==
    /\ Running
    /\ IF RelationArgsInvalid(from, to, relType)
       THEN /\ lastOp' = Returned("CreateRelation", ErrValidation, <<>>, {})
            /\ UNCHANGED <<ms, hostVars>>
       ELSE IF ~Has(ms.memories, from) \/ ~Has(ms.memories, to)
       THEN /\ lastOp' = Returned("CreateRelation", ErrNotFound, <<>>, {})
            /\ UNCHANGED <<ms, hostVars>>
       ELSE /\ ms' = AppendRelation(ms, from, to, relType, strength)
            /\ lastOp' = Returned("CreateRelation", NoError, <<>>, {})
    /\ calls' = calls + 1
    /\ UNCHANGED <<objs, now, panicked, procVars, hostVars>>

CreateRelationCall ==
    \E r \in RelationArgs : CreateRelation(r.from, r.to, r.type, r.strength)

----------------------------------------------------------------------------
(* container/heap over ScoredMemoryHeap (a min-heap on Score); h[k + 1] is the
   element at Go index k *)

Less_Greater(h, i, j) == h[i + 1].score > h[j + 1].score

Less(h, i, j) == h[i + 1].score < h[j + 1].score

Swap(h, i, j) == [h EXCEPT ![i + 1] = h[j + 1], ![j + 1] = h[i + 1]]

RECURSIVE up(_, _)
up(h, j) ==
    LET i == (j - 1) \div 2          \* parent; Go truncates (0 - 1) / 2 to 0
        parent == IF j = 0 THEN 0 ELSE i
    IN IF parent = j \/ ~Less(h, j, parent)
       THEN h
       ELSE up(Swap(h, parent, j), parent)

RECURSIVE down(_, _, _)
down(h, i, n) ==
    LET j1 == 2 * i + 1
    IN IF j1 >= n
       THEN h
       ELSE LET j == IF j1 + 1 < n /\ Less(h, j1 + 1, j1) THEN j1 + 1 ELSE j1
            IN IF ~Less(h, j, i)
               THEN h
               ELSE down(Swap(h, i, j), j, n)

HeapPush(h, x) == up(Append(h, x), Len(h))

\* heap.Pop: the heap left, and the element removed
HeapPop(h) ==
    LET n == Len(h) - 1
        h1 == down(Swap(h, 0, n), 0, n)
    IN [heap |-> SubSeq(h1, 1, n), item |-> h1[n + 1]]

----------------------------------------------------------------------------
(* The retrieval strategies.  `order` is the order in which a Go map happens
   to be iterated: any arrangement of its keys. *)

Orders(S) ==
    {f \in [1..Cardinality(S) -> S] : \A i, j \in 1..Cardinality(S) : f[i] = f[j] => i = j}

RECURSIVE SimilarScan(_, _, _, _, _, _)
SimilarScan(s, h, normalizedQuery, limit, order, k) ==
    IF k > Len(order)
    THEN h
    ELSE LET id == order[k]
             score == dotProduct(normalizedQuery, s.embeddingIndex[id])
             x == [mem |-> s.memories[id], score |-> score]
             h1 == IF ~Has(s.memories, id) THEN h
                   ELSE IF Len(h) < limit THEN HeapPush(h, x)
                   ELSE IF score > h[1].score THEN HeapPush(HeapPop(h).heap, x)
                   ELSE h
         IN SimilarScan(s, h1, normalizedQuery, limit, order, k + 1)

RECURSIVE Drain(_, _)
Drain(h, results) ==
    IF Len(h) = 0
    THEN results
    ELSE LET p == HeapPop(h) IN Drain(p.heap, <<p.item.mem>> \o results)

findSimilar(s, embedding, limit, order) ==
    Drain(SimilarScan(s, <<>>, normalizeVector(embedding), limit, order, 1), <<>>)

RECURSIVE TemporalScan(_, _, _, _, _, _)
TemporalScan(s, o, start, end, order, k) ==
    IF k > Len(order)
    THEN <<>>
    ELSE SelectSeq(s.timeIndex[order[k]],
                   LAMBDA a : o[a].timestamp > start /\ o[a].timestamp < end)
         \o TemporalScan(s, o, start, end, order, k + 1)

findTemporal(s, o, start, end, order) == TemporalScan(s, o, start, end, order, 1)

findByType(s, memType, order) ==
    IF Has(s.typeIndex, memType)
    THEN [k \in 1..Len(order) |-> s.typeIndex[memType][order[k]]]
    ELSE <<>>

IsPrefix(p, w) == Len(p) <= Len(w) /\ SubSeq(w, 1, Len(p)) = p

RECURSIVE KeywordMatches_Prefix(_, _, _, _)
KeywordMatches_Prefix(s, keywords, k, resultMap) ==
    IF k > Len(keywords)
    THEN resultMap
    ELSE LET lowerKeyword == ToLower(keywords[k])
             words == {w \in DOMAIN s.keywordIndex : IsPrefix(lowerKeyword, w)}
             ids == UNION {DOMAIN s.keywordIndex[w] : w \in words}
             found == [id \in ids |->
                          s.keywordIndex[CHOOSE w \in words : Has(s.keywordIndex[w], id)][id]]
             merged == [id \in DOMAIN resultMap \cup DOMAIN found |->
                           IF id \in DOMAIN found THEN found[id] ELSE resultMap[id]]
         IN KeywordMatches_Prefix(s, keywords, k + 1, merged)

\* resultMap of findByKeywords after its lookup loop
RECURSIVE KeywordMatches(_, _, _, _)
KeywordMatches(s, keywords, k, resultMap) ==
    IF k > Len(keywords)
    THEN resultMap
    ELSE LET lowerKeyword == ToLower(keywords[k])
             found == IF Has(s.keywordIndex, lowerKeyword)
                      THEN s.keywordIndex[lowerKeyword] ELSE EmptyMap
             merged == [id \in DOMAIN resultMap \cup DOMAIN found |->
                           IF id \in DOMAIN found THEN found[id] ELSE resultMap[id]]
         IN KeywordMatches(s, keywords, k + 1, merged)

findByKeywords(s, keywords, order) ==
    LET resultMap == KeywordMatches(s, keywords, 1, EmptyMap)
    IN [k \in 1..Len(order) |-> resultMap[order[k]]]

RECURSIVE RelatedFrontier_IncludesStart(_, _, _, _, _, _, _)
RelatedFrontier_IncludesStart(s, memoryID, queue, k, visited, results, nextQueue) ==
    IF k > Len(queue)
    THEN [visited |-> visited, results |-> results, nextQueue |-> nextQueue]
    ELSE LET id == queue[k]
         IN IF id \in visited
            THEN RelatedFrontier_IncludesStart(s, memoryID, queue, k + 1, visited,
                                               results, nextQueue)
            ELSE LET visited1 == visited \cup {id}
                     results1 == IF Has(s.memories, id)
                                 THEN Append(results, s.memories[id])
                                 ELSE results
                     rels == IF Has(s.relations, id) THEN s.relations[id] ELSE <<>>
                     tos == [i \in 1..Len(rels) |-> rels[i].to]
                     added == SelectSeq(tos, LAMBDA t : ~(t \in visited1))
                 IN RelatedFrontier_IncludesStart(s, memoryID, queue, k + 1, visited1,
                                                  results1, nextQueue \o added)

\* one pass of the inner loop of findRelated over `queue`
RECURSIVE RelatedFrontier(_, _, _, _, _, _, _)
RelatedFrontier(s, memoryID, queue, k, visited, results, nextQueue) ==
    IF k > Len(queue)
    THEN [visited |-> visited, results |-> results, nextQueue |-> nextQueue]
    ELSE LET id == queue[k]
         IN IF id \in visited
            THEN RelatedFrontier(s, memoryID, queue, k + 1, visited, results, nextQueue)
            ELSE LET visited1 == visited \cup {id}
                     results1 == IF Has(s.memories, id) /\ id # memoryID
                                 THEN Append(results, s.memories[id])
                                 ELSE results
                     rels == IF Has(s.relations, id) THEN s.relations[id] ELSE <<>>
                     tos == [i \in 1..Len(rels) |-> rels[i].to]
                     added == SelectSeq(tos, LAMBDA t : ~(t \in visited1))
                 IN RelatedFrontier(s, memoryID, queue, k + 1, visited1, results1,
                                    nextQueue \o added)

RECURSIVE RelatedLoop(_, _, _, _, _, _, _)
RelatedLoop(s, memoryID, depth, d, queue, visited, results) ==
    IF ~(d < depth /\ Len(queue) > 0)
    THEN results
    ELSE LET r == RelatedFrontier(s, memoryID, queue, 1, visited, results, <<>>)
         IN RelatedLoop(s, memoryID, depth, d + 1, r.nextQueue, r.visited, r.results)

findRelated(s, memoryID, depth) ==
    RelatedLoop(s, memoryID, depth, 0, <<memoryID>>, {}, <<>>)

----------------------------------------------------------------------------
(* MemoryStore.Query *)

Criteria(type, limit) ==
    [ type |-> type, keywords |-> <<>>, memoryType |-> "", embedding |-> NoEmbedding,
      startTime |-> ZeroTime, endTime |-> ZeroTime, memoryID |-> NoId, depth |-> 0,
      limit |-> limit ]

QueryValidationFails_NoUpperBound(criteria) ==
    criteria.type = "" \/ criteria.limit < 0

QueryValidationFails(criteria) ==
    \/ criteria.type = ""
    \/ criteria.limit < 0
    \/ (IF criteria.limit = 0 THEN DefaultLimit ELSE criteria.limit) > MaxLimit

EffectiveLimit(criteria) == IF criteria.limit = 0 THEN DefaultLimit ELSE criteria.limit

\* the result lists the strategy switch can produce
QueryResults(s, o, criteria) ==
    CASE criteria.type = "similarity" ->
           {findSimilar(s, criteria.embedding, EffectiveLimit(criteria), order) :
               order \in Orders(DOMAIN s.embeddingIndex)}
      [] criteria.type = "temporal" ->
           {findTemporal(s, o, criteria.startTime, criteria.endTime, order) :
               order \in Orders(DOMAIN s.timeIndex)}
      [] criteria.type = "type" ->
           {findByType(s, criteria.memoryType, order) :
               order \in Orders(IF Has(s.typeIndex, criteria.memoryType)
                                THEN DOMAIN s.typeIndex[criteria.memoryType] ELSE {})}
      [] criteria.type = "related" ->
           {findRelated(s, criteria.memoryID, criteria.depth)}
      [] OTHER ->
           {findByKeywords(s, criteria.keywords, order) :
               order \in Orders(DOMAIN KeywordMatches(s, criteria.keywords, 1, EmptyMap))}

UpdateAccess_WholeTable(o, results, k, t) ==
    [a \in 1..Len(o) |-> [o[a] EXCEPT !.lastAccess = t, !.accessCount = @ + 1]]

\* the loop "Update access patterns"
RECURSIVE UpdateAccess(_, _, _, _)
UpdateAccess(o, results, k, t) ==
    IF k > Len(results)
    THEN o
    ELSE UpdateAccess([o EXCEPT ![results[k]].lastAccess = t,
                                ![results[k]].accessCount = @ + 1],
                      results, k + 1, t)

\* dotProduct(normalizedQuery, emb) indexes emb by the positions of the query:
\* a stored embedding shorter than the query is an index out of range
QueryPanics(s, criteria) ==
    /\ criteria.type = "similarity"
    /\ \E id \in DOMAIN s.embeddingIndex :
         Has(s.memories, id) /\ Len(criteria.embedding) > Len(s.embeddingIndex[id])

Query(criteria) ==
    /\ Running
    /\ IF QueryValidationFails(criteria)
       THEN /\ lastOp' = Returned("Query", ErrValidation, <<>>, {})
            /\ UNCHANGED <<objs, panicked, hostVars>>
       ELSE IF QueryPanics(ms, criteria)
       THEN /\ panicked' = TRUE
            /\ lastOp' = [Returned("Query", Panic, <<>>, {})
                              EXCEPT !.strategy = StrategyOf(criteria),
                                     !.criteria = criteria]
            /\ UNCHANGED <<objs, hostVars>>
       ELSE /\ \E results \in QueryResults(ms, objs, criteria) :
                 /\ objs' = UpdateAccess(objs, results, 1, now)
                 /\ lastOp' = [Returned("Query", NoError, results, {})
                                   EXCEPT !.strategy = StrategyOf(criteria),
                                          !.criteria = criteria]
            /\ UNCHANGED <<panicked, hostVars>>
    /\ calls' = calls + 1
    /\ UNCHANGED <<ms, now, procVars, hostVars>>

\* the queries made: one per refusal, and each strategy with two inputs
Queries(t) ==
    { Criteria("", 1),
      Criteria("type", 0 - 1),
      Criteria("type", MaxLimit + 1),
      [Criteria("similarity", 1) EXCEPT !.embedding = <<1, 0>>],
      [Criteria("similarity", 0) EXCEPT !.embedding = <<1, 0>>],
      [Criteria("similarity", 1) EXCEPT !.embedding = <<1, 0, 0>>],
      [Criteria("temporal", 1) EXCEPT !.startTime = ZeroTime - 1, !.endTime = t + 1],
      [Criteria("temporal", 1) EXCEPT !.startTime = NowInit, !.endTime = t + 1],
      [Criteria("type", 1) EXCEPT !.memoryType = ShortTerm],
      [Criteria("type", MaxLimit) EXCEPT !.memoryType = BogusType],
      [Criteria("related", 1) EXCEPT !.memoryID = "a", !.depth = 1],
      [Criteria("related", 1) EXCEPT !.memoryID = "a", !.depth = 3],
      [Criteria("keywords", 1) EXCEPT !.keywords = <<<<"C", "A", "T">>>>],
      [Criteria("keywords", 1) EXCEPT !.keywords = <<<<"d", "o", "g">>, <<"c", "a">>>>],
      [Criteria("keywords", 1) EXCEPT !.keywords = <<CatDog>>] }

QueryCall == \E criteria \in Queries(now) : Query(criteria)

----------------------------------------------------------------------------
(* The clock *)

Tick ==
    /\ Running
    /\ \E t \in Instants :
         /\ t > now
         /\ now' = t
    /\ calls' = calls + 1
    /\ lastOp' = Returned("Tick", NoError, <<>>, {})
    /\ UNCHANGED <<ms, objs, panicked, procVars, hostVars>>

----------------------------------------------------------------------------
(* Start-up: LoadConfig, and the peers of the sharing mode (none started) *)

DefaultMaxMemories == 1000         \* flag max-memories
DefaultDecayMinutes == 5           \* flag decay-interval: 5 * time.Minute

\* flag.Parse: a flag not given (<<>>) keeps its default, a flag given
\* (<<value>>) sets the field
LoadConfig(flags) ==
    [ MaxMemories   |-> IF flags.maxMemories = <<>>
                        THEN DefaultMaxMemories ELSE flags.maxMemories[1],
      DecayInterval |-> IF flags.decayInterval = <<>>
                        THEN DefaultDecayMinutes ELSE flags.decayInterval[1] ]

MaxPeers == 3                      \* processes started with sharing enabled
Peers == 1..MaxPeers
NoPeer == 0                        \* no listener, no connection

NewConnectionManager == [pc |-> "off", isServer |-> FALSE, conn |-> NoPeer]

HostInit ==
    /\ pipe = NoPeer
    /\ cm = [p \in Peers |-> NewConnectionManager]

Init ==
    /\ \E maxMemories \in 0..MaxCap :
         /\ config = LoadConfig([maxMemories |-> <<maxMemories>>, decayInterval |-> <<>>])
         /\ ms = NewMemoryStore(config.MaxMemories)
    /\ HostInit
    /\ objs = <<>>
    /\ now = NowInit
    /\ panicked = FALSE
    /\ calls = 0
    /\ lastOp = Returned("NewMemoryStore", NoError, <<>>, {})
    /\ mu = [writer |-> None, readers |-> {}]
    /\ pc = [p \in Procs |-> "idle"]
    /\ loc = [p \in Procs |-> NoLocals]

Next ==
    \/ StoreCall
    \/ QueryCall
    \/ CreateRelationCall
    \/ applyDecay
    \/ consolidateMemories
    \/ Tick

Spec == Init /\ [][Next]_vars

----------------------------------------------------------------------------
(* Start-up with any flags: main calls LoadConfig and then
   NewMemoryStore(config.MaxMemories); the calls of Spec follow *)

\* the command lines: each flag left out or given
StartupFlags ==
    [ maxMemories   : {<<>>} \cup {<<n>> : n \in 0..MaxCap},
      decayInterval : {<<>>, <<1>>, <<10>>} ]

InitStartup ==
    /\ \E flags \in StartupFlags :
         /\ config = LoadConfig(flags)
         /\ ms = NewMemoryStore(config.MaxMemories)
    /\ HostInit
    /\ objs = <<>>
    /\ now = NowInit
    /\ panicked = FALSE
    /\ calls = MaxCalls - 2
    /\ lastOp = Returned("NewMemoryStore", NoError, <<>>, {})
    /\ mu = [writer |-> None, readers |-> {}]
    /\ pc = [p \in Procs |-> "idle"]
    /\ loc = [p \in Procs |-> NoLocals]

SpecStartup == InitStartup /\ [][Next]_vars

----------------------------------------------------------------------------
(* The tools of MCPServer that wrap the store, and Shutdown *)

\* generateID: "mem_" and time.Now().UnixNano(); two calls that read the same
\* clock value get the same id
generateID(t) == "mem_" \o ToString(t)

DefaultImportance == 100           \* StoreMemory: importance 0.5
DefaultDecay == 1                  \* StoreMemory: Decay 0.01 an hour

StoreMemoryArg(type, content, importance) ==
    [type |-> type, content |-> content, importance |-> importance,
     embedding |-> NoEmbedding, metadata |-> "m1"]

\* the arguments of the StoreMemory calls made: each refusal, the defaults
StoreMemoryArgs ==
    { StoreMemoryArg(type, content, importance) :
        type \in {"", Semantic, BogusType},
        content \in {<<>>, Cat},
        importance \in {ConsolidateImportance, ImpScale + 20} }

StoreMemoryTypeOf(args) == IF args.type = "" THEN ShortTerm ELSE args.type

StoreMemoryArgsInvalid(args) ==
    \/ args.content = <<>>
    \/ ~(StoreMemoryTypeOf(args) \in {ShortTerm, LongTerm, Episodic, Semantic, Procedural})

\* the Memory that StoreMemory hands to Store
NewMemory(args, t) ==
    [ id          |-> generateID(t),
      type        |-> StoreMemoryTypeOf(args),
      content     |-> args.content,
      embedding   |-> args.embedding,
      metadata    |-> args.metadata,
      timestamp   |-> t,
      lastAccess  |-> t,
      accessCount |-> 0,
      importance  |-> IF args.importance < 0 \/ args.importance > ImpScale
                      THEN DefaultImportance ELSE args.importance,
      decay       |-> DefaultDecay ]

\* StoreMemory returns the error of the Store call it ends with
StoreMemory(args) ==
    /\ Running
    /\ IF StoreMemoryArgsInvalid(args)
       THEN /\ lastOp' = Returned("StoreMemory", ErrValidation, <<>>, {})
            /\ UNCHANGED <<ms, objs, panicked>>
       ELSE LET req == NewMemory(args, now)
            IN IF StoreValidationFails(req)
               THEN /\ lastOp' = Returned("StoreMemory", ErrValidation, <<>>, {})
                    /\ UNCHANGED <<ms, objs, panicked>>
               ELSE IF IsDuplicate(ms, req)
               THEN /\ lastOp' = Returned("StoreMemory", ErrConflict, <<>>, {})
                    /\ UNCHANGED <<ms, objs, panicked>>
               ELSE /\ \E leastID \in EvictionChoices(ms, objs) :
                         LET r == StoreInsert(ms, objs, now, req, leastID)
                         IN /\ ms' = r.ms
                            /\ objs' = r.objs
                            /\ panicked' = (r.err = Panic)
                            /\ lastOp' = Returned("StoreMemory", r.err, <<>>,
                                                  {leastID} \ {NoId})
    /\ calls' = calls + 1
    /\ UNCHANGED <<now, procVars, hostVars>>

StoreMemoryCall == \E args \in StoreMemoryArgs : StoreMemory(args)

Stats(s) ==
    [ total_memories  |-> Cardinality(DOMAIN s.memories),
      by_type         |-> [t \in {ShortTerm, LongTerm, Episodic, Semantic, Procedural} |->
                              Cardinality(DOMAIN s.typeIndex[t])],
      total_relations |-> Cardinality(DOMAIN s.relations),
      \* the float32 quotient, as <<numerator, denominator>>
      capacity_used   |-> <<Cardinality(DOMAIN s.memories), s.maxMemories>> ]

GetStats ==
    /\ Running
    /\ lastOp' = [Returned("GetStats", NoError, <<>>, {}) EXCEPT !.stats = Stats(ms)]
    /\ calls' = calls + 1
    /\ UNCHANGED <<ms, objs, now, panicked, procVars, hostVars>>

\* ms.cancel() may be called again; close(ms.shutdownChan) of a closed channel
\* panics
Shutdown ==
    /\ Running
    /\ IF ms.shutdownClosed
       THEN /\ panicked' = TRUE
            /\ lastOp' = Returned("Shutdown", Panic, <<>>, {})
            /\ ms' = [ms EXCEPT !.ctxDone = TRUE]
       ELSE /\ ms' = [ms EXCEPT !.ctxDone = TRUE, !.shutdownClosed = TRUE]
            /\ lastOp' = Returned("Shutdown", NoError, <<>>, {})
            /\ UNCHANGED panicked
    /\ calls' = calls + 1
    /\ UNCHANGED <<objs, now, procVars, hostVars>>

\* the direct Store calls made next to the tools
ServerMemories(t) == {MemoryOf("a", P1, t), MemoryOf("b", P2, t)}

ServerStoreCall == \E req \in ServerMemories(now) : Store(req)

NextServer ==
    \/ ServerStoreCall
    \/ CreateRelationCall
    \/ applyDecay
    \/ consolidateMemories
    \/ Tick
    \/ StoreMemoryCall
    \/ GetStats
    \/ Shutdown

SpecServer == Init /\ [][NextServer]_vars

----------------------------------------------------------------------------
(* The same handlers statement by statement, run by concurrent goroutines
   under ms.mu (sync.RWMutex): Lock waits for no writer and no reader, RLock
   waits for no writer. *)

MaxConcCalls == 3        \* calls and passes started in one concurrent run

ConcRunning == ~panicked /\ calls < MaxConcCalls

CanLock_IgnoresReaders(m) == m.writer = None

CanLock(m) == m.writer = None /\ m.readers = {}

CanRLock_IgnoresWriter(m) == TRUE

CanRLock(m) == m.writer = None

Goto(p, label) == pc' = [pc EXCEPT ![p] = label]
SetLoc(p, l) == loc' = [loc EXCEPT ![p] = l]

Lock_NoWait(p, label) ==
    /\ ~panicked
    /\ mu' = [mu EXCEPT !.writer = p]
    /\ Goto(p, label)
    /\ UNCHANGED <<ms, objs, now, panicked, lastOp, calls, loc, hostVars>>

Lock(p, label) ==
    /\ ~panicked
    /\ CanLock(mu)
    /\ mu' = [mu EXCEPT !.writer = p]
    /\ Goto(p, label)
    /\ UNCHANGED <<ms, objs, now, panicked, lastOp, calls, loc, hostVars>>

\* the deferred Unlock: the handler returns what it computed
Unlock(p, op) ==
    /\ ~panicked
    /\ mu' = [mu EXCEPT !.writer = None]
    /\ lastOp' = Returned(op, loc[p].err, <<>>, loc[p].removed)
    /\ Goto(p, "idle")
    /\ SetLoc(p, NoLocals)
    /\ UNCHANGED <<ms, objs, now, panicked, calls, hostVars>>

\* the Memory values and calls of the concurrent runs
ConcMemories(t) ==
    {MemoryOf("a", P1, t), MemoryOf("b", P2, t), NilMemory} \cup BogusMemories(t)
ConcQueries ==
    { [Criteria("type", 1) EXCEPT !.memoryType = ShortTerm],
      [Criteria("keywords", 1) EXCEPT !.keywords = <<<<"C", "A", "T">>>>],
      Criteria("", 1) }
ConcRelationArgs ==
    { RelationArg("a", "b", "causes", StrScale), RelationArg("a", "b", "", StrScale) }

(* Store *)

BeginStore(w, req) ==
    /\ pc[w] = "idle" /\ ConcRunning
    /\ calls' = calls + 1
    /\ IF StoreValidationFails(req)
       THEN /\ lastOp' = Returned("Store", ErrValidation, <<>>, {})
            /\ UNCHANGED <<pc, loc, hostVars>>
       ELSE /\ Goto(w, "store_lock")
            /\ SetLoc(w, [op |-> "Store", req |-> req, addr |-> 0,
                          err |-> NoError, removed |-> {}])
            /\ UNCHANGED <<lastOp, hostVars>>
    /\ UNCHANGED <<ms, objs, now, panicked, mu, hostVars>>

StoreLock(w) == pc[w] = "store_lock" /\ Lock(w, "store_check")

\* the duplicate check and the capacity check
StoreCheck(w) ==
    /\ pc[w] = "store_check" /\ ~panicked
    /\ IF IsDuplicate(ms, loc[w].req)
       THEN /\ Goto(w, "store_unlock")
            /\ SetLoc(w, [loc[w] EXCEPT !.err = ErrConflict])
            /\ UNCHANGED <<ms, hostVars>>
       ELSE \E leastID \in EvictionChoices(ms, objs) :
              /\ ms' = evictLeastImportant(ms, objs, leastID, now)
              /\ Goto(w, "store_put")
              /\ SetLoc(w, [loc[w] EXCEPT !.removed = {leastID} \ {NoId}])
    /\ UNCHANGED <<objs, now, panicked, lastOp, calls, mu, hostVars>>

StorePutStep(w) ==
    /\ pc[w] = "store_put" /\ ~panicked
    /\ objs' = Append(objs, loc[w].req)
    /\ ms' = StorePut(ms, loc[w].req, Len(objs) + 1)
    /\ SetLoc(w, [loc[w] EXCEPT !.addr = Len(objs) + 1])
    /\ Goto(w, "store_type")
    /\ UNCHANGED <<now, panicked, lastOp, calls, mu, hostVars>>

\* a panic here runs the deferred Unlock and ends the process
StoreTypeStep(w) ==
    /\ pc[w] = "store_type" /\ ~panicked
    /\ IF TypeIndexPanics(ms, loc[w].req)
       THEN /\ panicked' = TRUE
            /\ mu' = [mu EXCEPT !.writer = None]
            /\ lastOp' = Returned("Store", Panic, <<>>, loc[w].removed)
            /\ Goto(w, "crashed")
            /\ UNCHANGED <<ms, hostVars>>
       ELSE /\ ms' = StoreTypeIndex(ms, loc[w].req, loc[w].addr)
            /\ Goto(w, "store_time")
            /\ UNCHANGED <<panicked, lastOp, mu, hostVars>>
    /\ UNCHANGED <<objs, now, calls, loc, hostVars>>

StoreTimeStep(w) ==
    /\ pc[w] = "store_time" /\ ~panicked
    /\ ms' = addToTimeIndex(ms, objs, loc[w].addr)
    /\ Goto(w, "store_keyword")
    /\ UNCHANGED <<objs, now, panicked, lastOp, calls, mu, loc, hostVars>>

StoreKeywordStep(w) ==
    /\ pc[w] = "store_keyword" /\ ~panicked
    /\ ms' = addToKeywordIndex(ms, objs, loc[w].addr)
    /\ Goto(w, "store_embedding")
    /\ UNCHANGED <<objs, now, panicked, lastOp, calls, mu, loc, hostVars>>

StoreEmbeddingStep(w) ==
    /\ pc[w] = "store_embedding" /\ ~panicked
    /\ ms' = StoreEmbedding(ms, loc[w].req)
    /\ Goto(w, "store_unlock")
    /\ UNCHANGED <<objs, now, panicked, lastOp, calls, mu, loc, hostVars>>

StoreUnlock(w) == pc[w] = "store_unlock" /\ Unlock(w, "Store")

(* Query *)

BeginQuery(w, criteria) ==
    /\ pc[w] = "idle" /\ ConcRunning
    /\ calls' = calls + 1
    /\ IF QueryValidationFails(criteria)
       THEN /\ lastOp' = Returned("Query", ErrValidation, <<>>, {})
            /\ UNCHANGED <<pc, loc, hostVars>>
       ELSE /\ Goto(w, "query_rlock")
            /\ SetLoc(w, [op |-> "Query", criteria |-> criteria, results |-> <<>>,
                          k |-> 1, count |-> 0])
            /\ UNCHANGED <<lastOp, hostVars>>
    /\ UNCHANGED <<ms, objs, now, panicked, mu, hostVars>>

QueryRLock(w) ==
    /\ pc[w] = "query_rlock" /\ ~panicked
    /\ CanRLock(mu)
    /\ mu' = [mu EXCEPT !.readers = @ \cup {w}]
    /\ Goto(w, "query_find")
    /\ UNCHANGED <<ms, objs, now, panicked, lastOp, calls, loc, hostVars>>

\* a panic here runs the deferred RUnlock and ends the process
QueryFind(w) ==
    /\ pc[w] = "query_find" /\ ~panicked
    /\ IF QueryPanics(ms, loc[w].criteria)
       THEN /\ panicked' = TRUE
            /\ mu' = [mu EXCEPT !.readers = @ \ {w}]
            /\ lastOp' = [Returned("Query", Panic, <<>>, {})
                              EXCEPT !.strategy = StrategyOf(loc[w].criteria),
                                     !.criteria = loc[w].criteria]
            /\ Goto(w, "crashed")
            /\ UNCHANGED <<loc, hostVars>>
       ELSE /\ \E results \in QueryResults(ms, objs, loc[w].criteria) :
                 /\ SetLoc(w, [loc[w] EXCEPT !.results = results])
                 /\ Goto(w, IF Len(results) = 0 THEN "query_runlock" ELSE "query_read")
            /\ UNCHANGED <<panicked, lastOp, mu, hostVars>>
    /\ UNCHANGED <<ms, objs, now, calls, hostVars>>

\* mem.LastAccess = time.Now(), and the load of mem.AccessCount++
QueryRead(w) ==
    /\ pc[w] = "query_read" /\ ~panicked
    /\ LET a == loc[w].results[loc[w].k]
       IN /\ objs' = [objs EXCEPT ![a].lastAccess = now]
          /\ SetLoc(w, [loc[w] EXCEPT !.count = objs[a].accessCount])
    /\ Goto(w, "query_write")
    /\ UNCHANGED <<ms, now, panicked, lastOp, calls, mu, hostVars>>

QueryWrite_NoIncrement(w) ==
    /\ pc[w] = "query_write" /\ ~panicked
    /\ LET a == loc[w].results[loc[w].k]
       IN objs' = [objs EXCEPT ![a].accessCount = loc[w].count]
    /\ SetLoc(w, [loc[w] EXCEPT !.k = @ + 1])
    /\ Goto(w, IF loc[w].k = Len(loc[w].results) THEN "query_runlock" ELSE "query_read")
    /\ UNCHANGED <<ms, now, panicked, lastOp, calls, mu, hostVars>>

\* the store of mem.AccessCount++
QueryWrite(w) ==
    /\ pc[w] = "query_write" /\ ~panicked
    /\ LET a == loc[w].results[loc[w].k]
       IN objs' = [objs EXCEPT ![a].accessCount = loc[w].count + 1]
    /\ SetLoc(w, [loc[w] EXCEPT !.k = @ + 1])
    /\ Goto(w, IF loc[w].k = Len(loc[w].results) THEN "query_runlock" ELSE "query_read")
    /\ UNCHANGED <<ms, now, panicked, lastOp, calls, mu, hostVars>>

QueryRUnlock(w) ==
    /\ pc[w] = "query_runlock" /\ ~panicked
    /\ mu' = [mu EXCEPT !.readers = @ \ {w}]
    /\ lastOp' = [Returned("Query", NoError, loc[w].results, {})
                      EXCEPT !.strategy = StrategyOf(loc[w].criteria),
                             !.criteria = loc[w].criteria]
    /\ Goto(w, "idle")
    /\ SetLoc(w, NoLocals)
    /\ UNCHANGED <<ms, objs, now, panicked, calls, hostVars>>

(* CreateRelation *)

BeginCreateRelation(w, r) ==
    /\ pc[w] = "idle" /\ ConcRunning
    /\ calls' = calls + 1
    /\ IF RelationArgsInvalid(r.from, r.to, r.type)
       THEN /\ lastOp' = Returned("CreateRelation", ErrValidation, <<>>, {})
            /\ UNCHANGED <<pc, loc, hostVars>>
       ELSE /\ Goto(w, "relate_lock")
            /\ SetLoc(w, [op |-> "CreateRelation", rel |-> r, err |-> NoError,
                          removed |-> {}])
            /\ UNCHANGED <<lastOp, hostVars>>
    /\ UNCHANGED <<ms, objs, now, panicked, mu, hostVars>>

RelateLock(w) == pc[w] = "relate_lock" /\ Lock(w, "relate_body")

RelateBody(w) ==
    /\ pc[w] = "relate_body" /\ ~panicked
    /\ LET r == loc[w].rel
       IN IF ~Has(ms.memories, r.from) \/ ~Has(ms.memories, r.to)
          THEN /\ SetLoc(w, [loc[w] EXCEPT !.err = ErrNotFound])
               /\ UNCHANGED <<ms, hostVars>>
          ELSE /\ ms' = AppendRelation(ms, r.from, r.to, r.type, r.strength)
               /\ UNCHANGED <<loc, hostVars>>
    /\ Goto(w, "relate_unlock")
    /\ UNCHANGED <<objs, now, panicked, lastOp, calls, mu, hostVars>>

RelateUnlock(w) == pc[w] = "relate_unlock" /\ Unlock(w, "CreateRelation")

(* The maintenance goroutines: a ticker fires, the pass runs under the lock *)

DecayWake ==
    /\ pc[DecayTask] = "idle" /\ ConcRunning
    /\ calls' = calls + 1
    /\ Goto(DecayTask, "decay_lock")
    /\ SetLoc(DecayTask, [op |-> "applyDecay", err |-> NoError, removed |-> {}])
    /\ UNCHANGED <<ms, objs, now, panicked, lastOp, mu, hostVars>>

DecayLock == pc[DecayTask] = "decay_lock" /\ Lock(DecayTask, "decay_body")

DecayBody ==
    /\ pc[DecayTask] = "decay_body" /\ ~panicked
    /\ LET o1 == DecayedObjs(ms, objs, now)
           toRemove == DecayToRemove(ms, o1)
       IN /\ objs' = o1
          /\ ms' = RemoveAll(ms, o1, toRemove, now)
          /\ SetLoc(DecayTask, [loc[DecayTask] EXCEPT !.removed = toRemove])
    /\ Goto(DecayTask, "decay_unlock")
    /\ UNCHANGED <<now, panicked, lastOp, calls, mu, hostVars>>

DecayUnlock == pc[DecayTask] = "decay_unlock" /\ Unlock(DecayTask, "applyDecay")

ConsolidationWake ==
    /\ pc[ConsolidationTask] = "idle" /\ ConcRunning
    /\ calls' = calls + 1
    /\ Goto(ConsolidationTask, "consolidate_lock")
    /\ SetLoc(ConsolidationTask,
              [op |-> "consolidateMemories", err |-> NoError, removed |-> {}])
    /\ UNCHANGED <<ms, objs, now, panicked, lastOp, mu, hostVars>>

ConsolidationLock ==
    pc[ConsolidationTask] = "consolidate_lock" /\ Lock(ConsolidationTask, "consolidate_body")

ConsolidationBody ==
    /\ pc[ConsolidationTask] = "consolidate_body" /\ ~panicked
    /\ objs' = ConsolidatedObjs(ms, objs)
    /\ ms' = ConsolidatedStore(ms, objs)
    /\ Goto(ConsolidationTask, "consolidate_unlock")
    /\ UNCHANGED <<now, panicked, lastOp, calls, mu, loc, hostVars>>

ConsolidationUnlock ==
    pc[ConsolidationTask] = "consolidate_unlock"
    /\ Unlock(ConsolidationTask, "consolidateMemories")

ConcTick ==
    /\ ConcRunning
    /\ \E t \in Instants : t > now /\ now' = t
    /\ calls' = calls + 1
    /\ UNCHANGED <<ms, objs, panicked, lastOp, procVars, hostVars>>

ConcNext ==
    \/ \E w \in Workers : \E req \in ConcMemories(now) : BeginStore(w, req)
    \/ \E w \in Workers : StoreLock(w)
    \/ \E w \in Workers : StoreCheck(w)
    \/ \E w \in Workers : StorePutStep(w)
    \/ \E w \in Workers : StoreTypeStep(w)
    \/ \E w \in Workers : StoreTimeStep(w)
    \/ \E w \in Workers : StoreKeywordStep(w)
    \/ \E w \in Workers : StoreEmbeddingStep(w)
    \/ \E w \in Workers : StoreUnlock(w)
    \/ \E w \in Workers : \E criteria \in ConcQueries : BeginQuery(w, criteria)
    \/ \E w \in Workers : QueryRLock(w)
    \/ \E w \in Workers : QueryFind(w)
    \/ \E w \in Workers : QueryRead(w)
    \/ \E w \in Workers : QueryWrite(w)
    \/ \E w \in Workers : QueryRUnlock(w)
    \/ \E w \in Workers : \E r \in ConcRelationArgs : BeginCreateRelation(w, r)
    \/ \E w \in Workers : RelateLock(w)
    \/ \E w \in Workers : RelateBody(w)
    \/ \E w \in Workers : RelateUnlock(w)
    \/ DecayWake
    \/ DecayLock
    \/ DecayBody
    \/ DecayUnlock
    \/ ConsolidationWake
    \/ ConsolidationLock
    \/ ConsolidationBody
    \/ ConsolidationUnlock
    \/ ConcTick

SpecConc == Init /\ [][ConcNext]_vars

----------------------------------------------------------------------------
(* Shutdown among the goroutines: the caller of Shutdown (the signal handler
   of main, a test) holds no lock; each maintenance task sits in a select on
   its ticker and on ms.ctx.Done() *)

ConcShutdown ==
    /\ ConcRunning
    /\ calls' = calls + 1
    /\ IF ms.shutdownClosed
       THEN /\ panicked' = TRUE
            /\ lastOp' = Returned("Shutdown", Panic, <<>>, {})
            /\ ms' = [ms EXCEPT !.ctxDone = TRUE]
       ELSE /\ ms' = [ms EXCEPT !.ctxDone = TRUE, !.shutdownClosed = TRUE]
            /\ lastOp' = Returned("Shutdown", NoError, <<>>, {})
            /\ UNCHANGED panicked
    /\ UNCHANGED <<objs, now, procVars, hostVars>>

TaskExit_Never(task) == FALSE /\ UNCHANGED vars

\* case <-ms.ctx.Done(): return
TaskExit(task) ==
    /\ pc[task] = "idle" /\ ~panicked
    /\ ms.ctxDone
    /\ Goto(task, "exited")
    /\ UNCHANGED <<ms, objs, now, panicked, lastOp, calls, mu, loc, hostVars>>

DecayExit == TaskExit(DecayTask)

ConsolidationExit == TaskExit(ConsolidationTask)

\* the calls in flight around the Shutdown: a Store and a Query
ShutdownMemories(t) == {MemoryOf("a", P1, t)}
ShutdownQueries == {[Criteria("type", 1) EXCEPT !.memoryType = ShortTerm]}

\* the steps a goroutine takes once it is in a call or a pass
WorkerStep(w) ==
    \/ StoreLock(w) \/ StoreCheck(w) \/ StorePutStep(w) \/ StoreTypeStep(w)
    \/ StoreTimeStep(w) \/ StoreKeywordStep(w) \/ StoreEmbeddingStep(w)
    \/ StoreUnlock(w)
    \/ QueryRLock(w) \/ QueryFind(w) \/ QueryRead(w) \/ QueryWrite(w)
    \/ QueryRUnlock(w)

DecayStep == DecayLock \/ DecayBody \/ DecayUnlock

ConsolidationStep == ConsolidationLock \/ ConsolidationBody \/ ConsolidationUnlock

ShutdownNext ==
    \/ \E w \in Workers : \E req \in ShutdownMemories(now) : BeginStore(w, req)
    \/ \E w \in Workers : \E criteria \in ShutdownQueries : BeginQuery(w, criteria)
    \/ \E w \in Workers : WorkerStep(w)
    \/ DecayWake
    \/ DecayStep
    \/ ConsolidationWake
    \/ ConsolidationStep
    \/ ConcShutdown
    \/ DecayExit
    \/ ConsolidationExit

\* the Go scheduler runs every runnable goroutine and sync.RWMutex starves no
\* waiter; a select takes a case that is ready again and again
ShutdownFairness ==
    /\ \A w \in Workers : WF_vars(WorkerStep(w))
    /\ WF_vars(DecayStep)
    /\ WF_vars(ConsolidationStep)
    /\ SF_vars(DecayExit)
    /\ SF_vars(ConsolidationExit)

SpecShutdown == Init /\ [][ShutdownNext]_vars /\ ShutdownFairness

----------------------------------------------------------------------------
(* Sharing: every process started with sharing enabled runs
   ConnectionManager.Start on the one socket path pipePath *)

SetCM(p, label, isServer, conn) ==
    cm' = [cm EXCEPT ![p] = [pc |-> label, isServer |-> isServer, conn |-> conn]]

\* main: NewConnectionManager(store, server).Start()
Launch(p) ==
    /\ cm[p].pc = "off"
    /\ SetCM(p, "Start", FALSE, NoPeer)
    /\ UNCHANGED <<ms, objs, now, panicked, lastOp, calls, procVars, config, pipe>>

\* net.DialTimeout("unix", pipePath, ...): answered by the listener bound to
\* the path, refused when there is none
Dial(p) ==
    /\ cm[p].pc = "Start"
    /\ IF pipe # NoPeer
       THEN SetCM(p, "runAsClient", FALSE, pipe)
       ELSE SetCM(p, "runAsServer", FALSE, NoPeer)
    /\ UNCHANGED <<ms, objs, now, panicked, lastOp, calls, procVars, config, pipe>>

\* runAsServer: cm.isServer = true; os.Remove(pipePath) unlinks the path,
\* whichever listener it belonged to
RemovePipe(p) ==
    /\ cm[p].pc = "runAsServer"
    /\ SetCM(p, "Listen", TRUE, NoPeer)
    /\ pipe' = NoPeer
    /\ UNCHANGED <<ms, objs, now, panicked, lastOp, calls, procVars, config>>

\* net.Listen("unix", pipePath): binds the path, or fails when the path exists
\* again (Start returns the error and main ends the process); a server then
\* serves its own store to stdin and to the connections it accepts
Listen(p) ==
    /\ cm[p].pc = "Listen"
    /\ IF pipe = NoPeer
       THEN /\ pipe' = p
            /\ SetCM(p, "serving", TRUE, NoPeer)
       ELSE /\ SetCM(p, "failed", TRUE, NoPeer)
            /\ UNCHANGED pipe
    /\ UNCHANGED <<ms, objs, now, panicked, lastOp, calls, procVars, config>>

NextSharing ==
    \/ \E p \in Peers : Launch(p)
    \/ \E p \in Peers : Dial(p)
    \/ \E p \in Peers : RemovePipe(p)
    \/ \E p \in Peers : Listen(p)

SpecSharing == Init /\ [][NextSharing]_vars

----------------------------------------------------------------------------
(* Similarity search on its own: a store filled by Store calls with up to four
   records, each with one of a few embeddings or none, then similarity
   queries with several vectors and limits. *)

SimIdSeq == <<"a", "b", "c", "d">>
SimIds == Range(SimIdSeq)

SimEmbeddings == {<<3, 4, 0>>, <<4, 3, 0>>, <<0, 2, 0>>}

\* <<0, 0, 1>> is at right angles to every stored embedding: all scores are 0
SimilarQueries ==
    { [Criteria("similarity", limit) EXCEPT !.embedding = q] :
        limit \in {0, 1, 2, 3}, q \in {<<1, 0, 0>>, <<0, 0, 1>>} }

\* the store and objects after Store(reqs[k]), ..., Store(reqs[Len(reqs)])
RECURSIVE StoreAll(_, _, _, _)
StoreAll(s, o, reqs, k) ==
    IF k > Len(reqs)
    THEN [ms |-> s, objs |-> o]
    ELSE LET r == StoreInsert(s, o, NowInit, reqs[k], NoId)
         IN StoreAll(r.ms, r.objs, reqs, k + 1)

InitSimilar ==
    /\ \E present \in SUBSET SimIds :
       \E emb \in [SimIds -> SimEmbeddings \cup {NoEmbedding}] :
         /\ \A id \in SimIds \ present : emb[id] = NoEmbedding
         /\ LET ids == SelectSeq(SimIdSeq, LAMBDA id : id \in present)
                reqs == [k \in 1..Len(ids) |->
                            MemoryOf(ids[k], [P1 EXCEPT !.embedding = emb[ids[k]]], NowInit)]
                r == StoreAll(NewMemoryStore(Len(SimIdSeq)), <<>>, reqs, 1)
            IN /\ ms = r.ms
               /\ objs = r.objs
               /\ calls = Len(ids)
               /\ lastOp = IF Len(ids) = 0
                           THEN Returned("NewMemoryStore", NoError, <<>>, {})
                           ELSE Returned("Store", NoError, <<>>, {})
    /\ config = LoadConfig([maxMemories |-> <<Len(SimIdSeq)>>, decayInterval |-> <<>>])
    /\ HostInit
    /\ now = NowInit
    /\ panicked = FALSE
    /\ mu = [writer |-> None, readers |-> {}]
    /\ pc = [p \in Procs |-> "idle"]
    /\ loc = [p \in Procs |-> NoLocals]

SimilarQueryCall == \E criteria \in SimilarQueries : Query(criteria)

NextSimilar == SimilarQueryCall

SpecSimilar == InitSimilar /\ [][NextSimilar]_vars

----------------------------------------------------------------------------
(* Graph traversal on its own: three records stored, any choice of relation
   edges created among them (cycles, self-loops and a repeated edge
   included), then possibly a fourth Store that evicts one of the three; then
   related queries from each of them at several depths. *)

RelIdSeq == <<"a", "b", "c">>
RelIds == Range(RelIdSeq)
NewId == "d"

\* the CreateRelation calls to choose from, in the order they are made
RelEdgeSeq ==
    << <<"a", "b">>, <<"b", "c">>, <<"c", "a">>, <<"a", "c">>, <<"b", "a">>,
       <<"c", "b">>, <<"a", "a">>, <<"b", "b">>, <<"c", "c">>, <<"a", "b">> >>

RelatedQueries ==
    { [Criteria("related", 1) EXCEPT !.memoryID = id, !.depth = depth] :
        id \in RelIds, depth \in 0..4 }

\* the store after CreateRelation for edges[k], ..., edges[Len(edges)]
RECURSIVE RelateAll(_, _, _)
RelateAll(s, edges, k) ==
    IF k > Len(edges)
    THEN s
    ELSE RelateAll(AppendRelation(s, edges[k][1], edges[k][2], "causes", StrScale),
                   edges, k + 1)

InitRelated ==
    /\ \E chosen \in SUBSET (1..Len(RelEdgeSeq)) :
       \E evicted \in RelIds \cup {NoId} :
         LET reqs == [k \in 1..Len(RelIdSeq) |->
                         MemoryOf(RelIdSeq[k],
                                  IF RelIdSeq[k] = evicted THEN P2 ELSE P1, NowInit)]
             stored == StoreAll(NewMemoryStore(Len(RelIdSeq)), <<>>, reqs, 1)
             made == SelectSeq([k \in 1..Len(RelEdgeSeq) |-> k], LAMBDA k : k \in chosen)
             edges == [i \in 1..Len(made) |-> RelEdgeSeq[made[i]]]
             related == RelateAll(stored.ms, edges, 1)
             last == StoreInsert(related, stored.objs, NowInit,
                                 MemoryOf(NewId, P1, NowInit), evicted)
         IN /\ evicted # NoId => evicted \in LeastImportant(related, stored.objs)
            /\ ms = IF evicted = NoId THEN related ELSE last.ms
            /\ objs = IF evicted = NoId THEN stored.objs ELSE last.objs
            /\ lastOp = IF evicted = NoId
                        THEN Returned("CreateRelation", NoError, <<>>, {})
                        ELSE Returned("Store", NoError, <<>>, {evicted})
    /\ calls = MaxCalls - 1
    /\ config = LoadConfig([maxMemories |-> <<Len(RelIdSeq)>>, decayInterval |-> <<>>])
    /\ HostInit
    /\ now = NowInit
    /\ panicked = FALSE
    /\ mu = [writer |-> None, readers |-> {}]
    /\ pc = [p \in Procs |-> "idle"]
    /\ loc = [p \in Procs |-> NoLocals]

RelatedQueryCall == \E criteria \in RelatedQueries : Query(criteria)

NextRelated == RelatedQueryCall

SpecRelated == InitRelated /\ [][NextRelated]_vars

----------------------------------------------------------------------------
(* findRelated statement by statement, inside a Query that holds the read
   lock: the outer loop over d, the inner loop over the frontier `queue` *)

TraverseEdgeSeq ==
    << <<"a", "b">>, <<"b", "c">>, <<"c", "a">>, <<"a", "a">>, <<"b", "b">>,
       <<"a", "b">> >>

TraverseQueries ==
    { [Criteria("related", 1) EXCEPT !.memoryID = "a", !.depth = depth] :
        depth \in 0..4 }

InitTraverse ==
    /\ \E chosen \in SUBSET (1..Len(TraverseEdgeSeq)) :
         LET reqs == [k \in 1..Len(RelIdSeq) |-> MemoryOf(RelIdSeq[k], P1, NowInit)]
             stored == StoreAll(NewMemoryStore(Len(RelIdSeq)), <<>>, reqs, 1)
             made == SelectSeq([k \in 1..Len(TraverseEdgeSeq) |-> k],
                               LAMBDA k : k \in chosen)
             edges == [i \in 1..Len(made) |-> TraverseEdgeSeq[made[i]]]
         IN /\ ms = RelateAll(stored.ms, edges, 1)
            /\ objs = stored.objs
    /\ lastOp = Returned("CreateRelation", NoError, <<>>, {})
    /\ calls = MaxConcCalls - 1
    /\ config = LoadConfig([maxMemories |-> <<Len(RelIdSeq)>>, decayInterval |-> <<>>])
    /\ HostInit
    /\ now = NowInit
    /\ panicked = FALSE
    /\ mu = [writer |-> None, readers |-> {}]
    /\ pc = [p \in Procs |-> "idle"]
    /\ loc = [p \in Procs |-> NoLocals]

\* visited := {}; queue := [memoryID]; results := []; d := 0
RelatedStart(w) ==
    /\ pc[w] = "query_find" /\ ~panicked
    /\ loc[w].criteria.type = "related"
    /\ SetLoc(w, [op |-> "Query", criteria |-> loc[w].criteria, results |-> <<>>,
                  k |-> 1, count |-> 0, d |-> 0,
                  queue |-> <<loc[w].criteria.memoryID>>, visited |-> {},
                  nextQueue |-> <<>>])
    /\ Goto(w, "related_outer")
    /\ UNCHANGED <<ms, objs, now, panicked, lastOp, calls, mu, hostVars>>

RelatedOuter_NoDepthBound(w) ==
    /\ pc[w] = "related_outer" /\ ~panicked
    /\ IF Len(loc[w].queue) > 0
       THEN /\ SetLoc(w, [loc[w] EXCEPT !.nextQueue = <<>>, !.k = 1])
            /\ Goto(w, "related_inner")
       ELSE /\ SetLoc(w, [op |-> "Query", criteria |-> loc[w].criteria,
                          results |-> loc[w].results, k |-> 1, count |-> 0])
            /\ Goto(w, IF Len(loc[w].results) = 0 THEN "query_runlock" ELSE "query_read")
    /\ UNCHANGED <<ms, objs, now, panicked, lastOp, calls, mu, hostVars>>

\* for d := 0; d < depth && len(queue) > 0; d++ { nextQueue := []string{} ...
RelatedOuter(w) ==
    /\ pc[w] = "related_outer" /\ ~panicked
    /\ IF loc[w].d < loc[w].criteria.depth /\ Len(loc[w].queue) > 0
       THEN /\ SetLoc(w, [loc[w] EXCEPT !.nextQueue = <<>>, !.k = 1])
            /\ Goto(w, "related_inner")
       ELSE /\ SetLoc(w, [op |-> "Query", criteria |-> loc[w].criteria,
                          results |-> loc[w].results, k |-> 1, count |-> 0])
            /\ Goto(w, IF Len(loc[w].results) = 0 THEN "query_runlock" ELSE "query_read")
    /\ UNCHANGED <<ms, objs, now, panicked, lastOp, calls, mu, hostVars>>

\* one iteration of "for _, id := range queue", or its end: queue = nextQueue
RelatedInner(w) ==
    /\ pc[w] = "related_inner" /\ ~panicked
    /\ IF loc[w].k > Len(loc[w].queue)
       THEN /\ SetLoc(w, [loc[w] EXCEPT !.queue = loc[w].nextQueue, !.d = @ + 1])
            /\ Goto(w, "related_outer")
       ELSE LET r == RelatedFrontier(ms, loc[w].criteria.memoryID,
                                     <<loc[w].queue[loc[w].k]>>, 1, loc[w].visited,
                                     loc[w].results, loc[w].nextQueue)
            IN /\ SetLoc(w, [loc[w] EXCEPT !.visited = r.visited,
                                           !.results = r.results,
                                           !.nextQueue = r.nextQueue,
                                           !.k = @ + 1])
               /\ UNCHANGED pc
    /\ UNCHANGED <<ms, objs, now, panicked, lastOp, calls, mu, hostVars>>

TraverseStep(w) ==
    \/ QueryRLock(w) \/ RelatedStart(w) \/ RelatedOuter(w) \/ RelatedInner(w)
    \/ QueryRead(w) \/ QueryWrite(w) \/ QueryRUnlock(w)

NextTraverse ==
    \/ \E w \in Workers : \E criteria \in TraverseQueries : BeginQuery(w, criteria)
    \/ \E w \in Workers : TraverseStep(w)

\* the Go scheduler runs every runnable goroutine
SpecTraverse ==
    InitTraverse /\ [][NextTraverse]_vars /\ \A w \in Workers : WF_vars(TraverseStep(w))

----------------------------------------------------------------------------
(* Queries on their own: two records stored, then client goroutines calling
   Query at the same time.  Each call notes what its caller could see when it
   made the call: the number of calls made so far, whether another call was in
   progress, and every record's accessCount. *)

AccessQueries ==
    { [Criteria("type", 1) EXCEPT !.memoryType = ShortTerm],
      [Criteria("keywords", 1) EXCEPT !.keywords = <<<<"d", "o", "g">>>>] }

InitAccess ==
    /\ LET reqs == <<MemoryOf("a", P1, NowInit), MemoryOf("b", P2, NowInit)>>
           stored == StoreAll(NewMemoryStore(MaxCap), <<>>, reqs, 1)
       IN /\ ms = stored.ms
          /\ objs = stored.objs
    /\ lastOp = Returned("Store", NoError, <<>>, {})
    /\ calls = 0
    /\ config = LoadConfig([maxMemories |-> <<MaxCap>>, decayInterval |-> <<>>])
    /\ HostInit
    /\ now = NowInit
    /\ panicked = FALSE
    /\ mu = [writer |-> None, readers |-> {}]
    /\ pc = [p \in Procs |-> "idle"]
    /\ loc = [p \in Procs |-> NoLocals]

BeginAccess(w, criteria) ==
    /\ pc[w] = "idle" /\ ConcRunning
    /\ calls' = calls + 1
    /\ IF QueryValidationFails(criteria)
       THEN /\ lastOp' = Returned("Query", ErrValidation, <<>>, {})
            /\ UNCHANGED <<pc, loc, hostVars>>
       ELSE /\ Goto(w, "query_rlock")
            /\ SetLoc(w, [op |-> "Query", criteria |-> criteria, results |-> <<>>,
                          k |-> 1, count |-> 0,
                          began |-> calls,
                          alone |-> \A v \in Workers \ {w} : pc[v] = "idle",
                          before |-> [a \in 1..Len(objs) |-> objs[a].accessCount]])
            /\ UNCHANGED <<lastOp, hostVars>>
    /\ UNCHANGED <<ms, objs, now, panicked, mu, hostVars>>

AccessStep(w) ==
    \/ QueryRLock(w) \/ QueryFind(w) \/ QueryRead(w) \/ QueryWrite(w)
    \/ QueryRUnlock(w)

NextAccess ==
    \/ \E w \in Workers : \E criteria \in AccessQueries : BeginAccess(w, criteria)
    \/ \E w \in Workers : AccessStep(w)

SpecAccess == InitAccess /\ [][NextAccess]_vars

----------------------------------------------------------------------------
(* Embeddings of several lengths: Store calls with an embedding of the
   configured dimension, a longer one, a shorter one or none, and similarity
   queries with vectors of the same three lengths *)

EmbeddingMemories(t) ==
    { [MemoryOf(id, P1, t) EXCEPT !.embedding = e] :
        id \in {"a", "b"}, e \in {<<3, 4>>, <<3, 4, 0>>, <<5>>, NoEmbedding} }

EmbeddingQueries ==
    { [Criteria("similarity", 1) EXCEPT !.embedding = q] :
        q \in {<<1, 0>>, <<1, 0, 0>>, <<1>>} }

EmbeddingStoreCall == \E req \in EmbeddingMemories(now) : Store(req)

EmbeddingQueryCall == \E criteria \in EmbeddingQueries : Query(criteria)

NextEmbedding == EmbeddingStoreCall \/ EmbeddingQueryCall

SpecEmbedding == Init /\ [][NextEmbedding]_vars

----------------------------------------------------------------------------
(* Out-of-range numbers: Store calls with an importance inside and outside
   [0,1], CreateRelation calls with a strength below, inside and above [0,1] *)

StrengthArgs ==
    { RelationArg(from, to, "causes", strength) :
        from \in {"a", "b"}, to \in {"a", "b"},
        strength \in {0 - 10, 0, 70, StrScale, StrScale + 50} }
    \cup { RelationArg("a", "b", "", StrScale + 50) }

StrengthStoreCall ==
    \E req \in ServerMemories(now) \cup InvalidMemories(now) : Store(req)

StrengthRelationCall ==
    \E r \in StrengthArgs : CreateRelation(r.from, r.to, r.type, r.strength)

NextStrength == StrengthStoreCall \/ StrengthRelationCall

SpecStrength == Init /\ [][NextStrength]_vars

----------------------------------------------------------------------------
(* Every mutex call of the handlers and passes: ms.mu, and the mutexes of the
   time, embedding and keyword indexes.  A goroutine in a call has the rest of
   its path in loc[p].todo, as the mutex calls still to make and the stretches
   of code between them, and the index mutexes it holds in loc[p].held. *)

IndexMutexes == {"timeIndex", "embeddingIndex", "keywordIndex"}

MutexOp(do, on) == [do |-> do, on |-> on]
Code(name) == [do |-> name, on |-> ""]

Held(p) == IF "held" \in DOMAIN loc[p] THEN loc[p].held ELSE {}
IndexWriters(m) == {p \in Procs : <<m, "W">> \in Held(p)}
IndexReaders(m) == {p \in Procs : <<m, "R">> \in Held(p)}

removeMemoryLocks_KeepsKeywordLock ==
    << MutexOp("Lock", "embeddingIndex"), MutexOp("Unlock", "embeddingIndex"),
       MutexOp("Lock", "keywordIndex"),
       MutexOp("Lock", "timeIndex"), MutexOp("Unlock", "timeIndex") >>

\* removeMemory: embeddingIndex.mu around the delete, keywordIndex.mu in
\* removeFromKeywordIndex, timeIndex.mu in cleanupTimeBuckets
removeMemoryLocks ==
    << MutexOp("Lock", "embeddingIndex"), MutexOp("Unlock", "embeddingIndex"),
       MutexOp("Lock", "keywordIndex"), MutexOp("Unlock", "keywordIndex"),
       MutexOp("Lock", "timeIndex"), MutexOp("Unlock", "timeIndex") >>

RECURSIVE Times(_, _)
Times(n, ops) == IF n = 0 THEN <<>> ELSE ops \o Times(n - 1, ops)

\* Store from the capacity check on: evictLeastImportant, addToTimeIndex,
\* addToKeywordIndex, the embedding, the deferred Unlock
StoreLocks(evicts, hasEmbedding) ==
    (IF evicts THEN removeMemoryLocks ELSE <<>>)
    \o << MutexOp("Lock", "timeIndex"), MutexOp("Unlock", "timeIndex"),
          MutexOp("Lock", "keywordIndex"), MutexOp("Unlock", "keywordIndex") >>
    \o (IF hasEmbedding
        THEN <<MutexOp("Lock", "embeddingIndex"), MutexOp("Unlock", "embeddingIndex")>>
        ELSE <<>>)
    \o <<MutexOp("Unlock", "ms")>>

\* Query: RLock, the strategy under the read lock of its index, the access
\* update, the deferred RUnlock
QueryLocks(criteria) ==
    LET find == CASE StrategyOf(criteria) = "similarity" -> "embeddingIndex"
                  [] StrategyOf(criteria) = "temporal" -> "timeIndex"
                  [] StrategyOf(criteria) = "keywords" -> "keywordIndex"
                  [] OTHER -> ""
    IN <<MutexOp("RLock", "ms")>>
       \o (IF find = ""
           THEN <<Code("find")>>
           ELSE <<MutexOp("RLock", find), Code("find"), MutexOp("RUnlock", find)>>)
       \o <<Code("access"), MutexOp("RUnlock", "ms")>>

InCall(p, op, todo) ==
    [op |-> op, todo |-> todo, held |-> {}, err |-> NoError, removed |-> {},
     results |-> <<>>, arg |-> None]

Todo(p) == IF "todo" \in DOMAIN loc[p] THEN loc[p].todo ELSE <<>>
At(p, do) == pc[p] = "in_call" /\ ~panicked /\ Todo(p) # <<>> /\ Todo(p)[1].do = do
Advance(p, l) == SetLoc(p, [l EXCEPT !.todo = Tail(loc[p].todo)])

CallStore(w, req) ==
    /\ pc[w] = "idle" /\ ConcRunning
    /\ calls' = calls + 1
    /\ IF StoreValidationFails(req)
       THEN /\ lastOp' = Returned("Store", ErrValidation, <<>>, {})
            /\ UNCHANGED <<pc, loc>>
       ELSE /\ Goto(w, "in_call")
            /\ SetLoc(w, [InCall(w, "Store", <<MutexOp("Lock", "ms"), Code("check")>>)
                              EXCEPT !.arg = req])
            /\ UNCHANGED lastOp
    /\ UNCHANGED <<ms, objs, now, panicked, mu, hostVars>>

CallQuery(w, criteria) ==
    /\ pc[w] = "idle" /\ ConcRunning
    /\ calls' = calls + 1
    /\ IF QueryValidationFails(criteria)
       THEN /\ lastOp' = Returned("Query", ErrValidation, <<>>, {})
            /\ UNCHANGED <<pc, loc>>
       ELSE /\ Goto(w, "in_call")
            /\ SetLoc(w, [InCall(w, "Query", QueryLocks(criteria))
                              EXCEPT !.arg = criteria])
            /\ UNCHANGED lastOp
    /\ UNCHANGED <<ms, objs, now, panicked, mu, hostVars>>

CallCreateRelation(w, r) ==
    /\ pc[w] = "idle" /\ ConcRunning
    /\ calls' = calls + 1
    /\ IF RelationArgsInvalid(r.from, r.to, r.type)
       THEN /\ lastOp' = Returned("CreateRelation", ErrValidation, <<>>, {})
            /\ UNCHANGED <<pc, loc>>
       ELSE /\ Goto(w, "in_call")
            /\ SetLoc(w, [InCall(w, "CreateRelation",
                                 <<MutexOp("Lock", "ms"), Code("relate"),
                                   MutexOp("Unlock", "ms")>>)
                              EXCEPT !.arg = r])
            /\ UNCHANGED lastOp
    /\ UNCHANGED <<ms, objs, now, panicked, mu, hostVars>>

CallGetStats(w) ==
    /\ pc[w] = "idle" /\ ConcRunning
    /\ calls' = calls + 1
    /\ Goto(w, "in_call")
    /\ SetLoc(w, InCall(w, "GetStats",
                        <<MutexOp("RLock", "ms"), Code("stats"), MutexOp("RUnlock", "ms")>>))
    /\ UNCHANGED <<ms, objs, now, panicked, lastOp, mu, hostVars>>

\* case <-ticker.C: ms.applyDecay()
WakeDecay ==
    /\ pc[DecayTask] = "idle" /\ ConcRunning
    /\ calls' = calls + 1
    /\ Goto(DecayTask, "in_call")
    /\ SetLoc(DecayTask, InCall(DecayTask, "applyDecay",
                                <<MutexOp("Lock", "ms"), Code("decay")>>))
    /\ UNCHANGED <<ms, objs, now, panicked, lastOp, mu, hostVars>>

\* case <-ticker.C: ms.consolidateMemories()
WakeConsolidation ==
    /\ pc[ConsolidationTask] = "idle" /\ ConcRunning
    /\ calls' = calls + 1
    /\ Goto(ConsolidationTask, "in_call")
    /\ SetLoc(ConsolidationTask,
              InCall(ConsolidationTask, "consolidateMemories",
                     <<MutexOp("Lock", "ms"), Code("consolidate"),
                       MutexOp("Unlock", "ms")>>))
    /\ UNCHANGED <<ms, objs, now, panicked, lastOp, mu, hostVars>>

\* a call of Lock, RLock, Unlock or RUnlock on ms.mu or on an index mutex
MutexStep(p) ==
    /\ pc[p] = "in_call" /\ ~panicked /\ Todo(p) # <<>>
    /\ LET do == Todo(p)[1].do
           m == Todo(p)[1].on
       IN /\ do \in {"Lock", "RLock", "Unlock", "RUnlock"}
          /\ IF m = "ms"
             THEN /\ CASE do = "Lock" ->
                            CanLock(mu) /\ mu' = [mu EXCEPT !.writer = p]
                       [] do = "RLock" ->
                            CanRLock(mu) /\ mu' = [mu EXCEPT !.readers = @ \cup {p}]
                       [] do = "Unlock" -> mu' = [mu EXCEPT !.writer = None]
                       [] do = "RUnlock" -> mu' = [mu EXCEPT !.readers = @ \ {p}]
                  /\ Advance(p, loc[p])
             ELSE /\ CASE do = "Lock" ->
                            /\ IndexWriters(m) \cup IndexReaders(m) = {}
                            /\ Advance(p, [loc[p] EXCEPT !.held = @ \cup {<<m, "W">>}])
                       [] do = "RLock" ->
                            /\ IndexWriters(m) = {}
                            /\ Advance(p, [loc[p] EXCEPT !.held = @ \cup {<<m, "R">>}])
                       [] do = "Unlock" ->
                            Advance(p, [loc[p] EXCEPT !.held = @ \ {<<m, "W">>}])
                       [] do = "RUnlock" ->
                            Advance(p, [loc[p] EXCEPT !.held = @ \ {<<m, "R">>}])
                  /\ UNCHANGED mu
    /\ UNCHANGED <<ms, objs, now, panicked, lastOp, calls, pc, hostVars>>

\* Store under ms.mu: the duplicate check, the capacity check, the inserts;
\* a panic runs the deferred Unlock and ends the process
StoreBodyStep(p) ==
    /\ At(p, "check")
    /\ LET req == loc[p].arg
       IN IF IsDuplicate(ms, req)
          THEN /\ SetLoc(p, [loc[p] EXCEPT !.err = ErrConflict,
                                           !.todo = <<MutexOp("Unlock", "ms")>>])
               /\ UNCHANGED <<ms, objs, panicked, lastOp, mu, pc>>
          ELSE \E leastID \in EvictionChoices(ms, objs) :
                 LET r == StoreInsert(ms, objs, now, req, leastID)
                 IN /\ ms' = r.ms
                    /\ objs' = r.objs
                    /\ IF r.err = Panic
                       THEN /\ panicked' = TRUE
                            /\ mu' = [mu EXCEPT !.writer = None]
                            /\ lastOp' = Returned("Store", Panic, <<>>, {leastID} \ {NoId})
                            /\ Goto(p, "crashed")
                            /\ UNCHANGED loc
                       ELSE /\ SetLoc(p, [loc[p] EXCEPT
                                   !.removed = {leastID} \ {NoId},
                                   !.todo = StoreLocks(leastID # NoId,
                                                       req.embedding # NoEmbedding)])
                            /\ UNCHANGED <<panicked, lastOp, mu, pc>>
    /\ UNCHANGED <<now, calls, hostVars>>

\* the strategy of Query; a panic in findSimilar runs the deferred RUnlock of
\* ms.mu only: embeddingIndex.mu.RUnlock() is not deferred
FindStep(p) ==
    /\ At(p, "find")
    /\ IF QueryPanics(ms, loc[p].arg)
       THEN /\ panicked' = TRUE
            /\ mu' = [mu EXCEPT !.readers = @ \ {p}]
            /\ lastOp' = [Returned("Query", Panic, <<>>, {})
                              EXCEPT !.strategy = StrategyOf(loc[p].arg),
                                     !.criteria = loc[p].arg]
            /\ Goto(p, "crashed")
            /\ UNCHANGED loc
       ELSE /\ \E results \in QueryResults(ms, objs, loc[p].arg) :
                 Advance(p, [loc[p] EXCEPT !.results = results])
            /\ UNCHANGED <<panicked, lastOp, mu, pc>>
    /\ UNCHANGED <<ms, objs, now, calls, hostVars>>

\* the loop "Update access patterns"
AccessUpdateStep(p) ==
    /\ At(p, "access")
    /\ objs' = UpdateAccess(objs, loc[p].results, 1, now)
    /\ Advance(p, loc[p])
    /\ UNCHANGED <<ms, now, panicked, lastOp, calls, mu, pc, hostVars>>

RelationStep(p) ==
    /\ At(p, "relate")
    /\ LET r == loc[p].arg
       IN IF ~Has(ms.memories, r.from) \/ ~Has(ms.memories, r.to)
          THEN /\ Advance(p, [loc[p] EXCEPT !.err = ErrNotFound])
               /\ UNCHANGED ms
          ELSE /\ ms' = AppendRelation(ms, r.from, r.to, r.type, r.strength)
               /\ Advance(p, loc[p])
    /\ UNCHANGED <<objs, now, panicked, lastOp, calls, mu, pc, hostVars>>

StatsStep(p) ==
    /\ At(p, "stats")
    /\ Advance(p, [loc[p] EXCEPT !.arg = Stats(ms)])
    /\ UNCHANGED <<ms, objs, now, panicked, lastOp, calls, mu, pc, hostVars>>

\* applyDecay under ms.mu: the decay loop, then removeMemory for each id of
\* toRemove, then the deferred Unlock
DecayPassStep(p) ==
    /\ At(p, "decay")
    /\ LET o1 == DecayedObjs(ms, objs, now)
           toRemove == DecayToRemove(ms, o1)
       IN /\ objs' = o1
          /\ ms' = RemoveAll(ms, o1, toRemove, now)
          /\ SetLoc(p, [loc[p] EXCEPT
                 !.removed = toRemove,
                 !.todo = Times(Cardinality(toRemove), removeMemoryLocks)
                          \o <<MutexOp("Unlock", "ms")>>])
    /\ UNCHANGED <<now, panicked, lastOp, calls, mu, pc, hostVars>>

ConsolidationPassStep(p) ==
    /\ At(p, "consolidate")
    /\ objs' = ConsolidatedObjs(ms, objs)
    /\ ms' = ConsolidatedStore(ms, objs)
    /\ Advance(p, loc[p])
    /\ UNCHANGED <<now, panicked, lastOp, calls, mu, pc, hostVars>>

\* the call or pass returns
ReturnStep(p) ==
    /\ pc[p] = "in_call" /\ ~panicked /\ Todo(p) = <<>>
    /\ lastOp' = Returned(loc[p].op, loc[p].err, loc[p].results, loc[p].removed)
    /\ Goto(p, "idle")
    /\ SetLoc(p, NoLocals)
    /\ UNCHANGED <<ms, objs, now, panicked, calls, mu, hostVars>>

LockedStep(p) ==
    \/ MutexStep(p) \/ StoreBodyStep(p) \/ FindStep(p) \/ AccessUpdateStep(p)
    \/ RelationStep(p) \/ StatsStep(p) \/ DecayPassStep(p)
    \/ ConsolidationPassStep(p) \/ ReturnStep(p)

\* the calls made while the passes run
\* a record that is stored already, and a new one
LockMemories(t) == {MemoryOf("a", P1, t), MemoryOf("c", P3, t)}
LockQueries(t) ==
    { [Criteria("similarity", 1) EXCEPT !.embedding = <<1, 0>>],
      [Criteria("similarity", 1) EXCEPT !.embedding = <<1, 0, 0>>],
      [Criteria("temporal", 1) EXCEPT !.startTime = ZeroTime - 1, !.endTime = t + 1],
      [Criteria("keywords", 1) EXCEPT !.keywords = <<<<"C", "A", "T">>>>] }
LockRelationArgs == {RelationArg("a", "b", "causes", StrScale)}

\* a full store: record "b" was last accessed long ago, the next decay pass
\* removes it; two calls or passes are still to come
InitLocks ==
    /\ LET reqs == <<MemoryOf("a", P1, NowInit),
                     MemoryOf("b", [P2 EXCEPT !.fresh = FALSE], NowInit)>>
           stored == StoreAll(NewMemoryStore(Len(reqs)), <<>>, reqs, 1)
       IN /\ ms = stored.ms
          /\ objs = stored.objs
          /\ config = LoadConfig([maxMemories |-> <<Len(reqs)>>, decayInterval |-> <<>>])
    /\ lastOp = Returned("Store", NoError, <<>>, {})
    /\ calls = MaxConcCalls - 2
    /\ HostInit
    /\ now = NowInit
    /\ panicked = FALSE
    /\ mu = [writer |-> None, readers |-> {}]
    /\ pc = [p \in Procs |-> "idle"]
    /\ loc = [p \in Procs |-> NoLocals]

NextLocks ==
    \/ \E w \in Workers : \E req \in LockMemories(now) : CallStore(w, req)
    \/ \E w \in Workers : \E criteria \in LockQueries(now) : CallQuery(w, criteria)
    \/ \E w \in Workers : \E r \in LockRelationArgs : CallCreateRelation(w, r)
    \/ \E w \in Workers : CallGetStats(w)
    \/ WakeDecay
    \/ WakeConsolidation
    \/ \E p \in Procs : LockedStep(p)

\* the Go scheduler runs some runnable goroutine as long as there is one
SpecLocks ==
    InitLocks /\ [][NextLocks]_vars /\ WF_vars(\E p \in Procs : LockedStep(p))

----------------------------------------------------------------------------
(* Views of the store used by the statements below *)

Table == DOMAIN ms.memories
TableSize == Cardinality(Table)
Mem(id) == objs[ms.memories[id]]

\* id is in some type set / bucket member list / keyword set
InTypeIndex(s, id) == \E t \in DOMAIN s.typeIndex : Has(s.typeIndex[t], id)
InTimeIndex(s, o, id) ==
    \E b \in DOMAIN s.timeIndex : \E k \in 1..Len(s.timeIndex[b]) :
        o[s.timeIndex[b][k]].id = id
InEmbeddingIndex(s, id) == Has(s.embeddingIndex, id)
InKeywordIndex(s, id) == \E w \in DOMAIN s.keywordIndex : Has(s.keywordIndex[w], id)

StepOf(op) == lastOp'.op = op /\ calls' = calls + 1

----------------------------------------------------------------------------
(* C1: for any configured maximum M, the number of records in the table never
   exceeds M.  Fails for M = 0 (--max-memories 0): the capacity check finds
   nothing to evict in an empty table and Store inserts all the same. *)
C1_TableWithinCapacity == TableSize <= ms.maxMemories

(* C2: a Store that succeeds on a table holding the configured maximum removes
   exactly one record, one of minimum importance among those present before
   the call, and keeps every other record.  Fails with C1: for M = 0 the
   table is at its maximum while empty, and nothing is removed. *)
C2_StoreAtCapacityEvictsOneMinimum ==
    [][ (StepOf("Store") /\ lastOp'.err = NoError /\ TableSize >= ms.maxMemories)
        => \E victim \in Table :
             /\ \A other \in Table : Mem(victim).importance <= Mem(other).importance
             /\ lastOp'.removed = {victim}
             /\ \E new \in Ids \ Table :
                  DOMAIN ms'.memories = (Table \ {victim}) \cup {new}
             /\ \A id \in Table \ {victim} :
                  /\ ms'.memories[id] = ms.memories[id]
                  /\ objs'[ms.memories[id]] = objs[ms.memories[id]] ]_vars

(* C3: after removeMemory has removed a record (eviction or decay), its id is
   absent from the table, its type set, the member list of its time bucket,
   the embedding index and every keyword set.  Fails: removeMemory never
   takes the record out of its bucket's member list. *)
C3_RemovedAbsentEverywhere ==
    \A id \in lastOp.removed :
        /\ ~(id \in Table)
        /\ ~InTypeIndex(ms, id)
        /\ ~InTimeIndex(ms, objs, id)
        /\ ~InEmbeddingIndex(ms, id)
        /\ ~InKeywordIndex(ms, id)

(* Positions of the goroutines with respect to ms.mu *)

\* w is in Store between Lock and the deferred Unlock
InStore(w) ==
    pc[w] \in {"store_check", "store_put", "store_type", "store_time",
               "store_keyword", "store_embedding", "store_unlock"}

\* p holds the lock exclusively, by the code it is running
InExclusive(p) ==
    \/ InStore(p)
    \/ pc[p] \in {"relate_body", "relate_unlock", "decay_body", "decay_unlock",
                  "consolidate_body", "consolidate_unlock"}

\* q is in Query between RLock and the deferred RUnlock
Observing(q) == pc[q] \in {"query_find", "query_read", "query_write", "query_runlock"}

\* where the object at address a is visible
AtInTable(a) == \E id \in DOMAIN ms.memories : ms.memories[id] = a
AtInTypeIndex(a) ==
    \E t \in DOMAIN ms.typeIndex : \E id \in DOMAIN ms.typeIndex[t] :
        ms.typeIndex[t][id] = a
AtInTimeIndex(a) ==
    \E b \in DOMAIN ms.timeIndex : \E k \in 1..Len(ms.timeIndex[b]) :
        ms.timeIndex[b][k] = a
AtInKeywordIndex(a) ==
    \A word \in IndexWords(objs[a].content) :
        /\ Has(ms.keywordIndex, word)
        /\ Has(ms.keywordIndex[word], objs[a].id)
        /\ ms.keywordIndex[word][objs[a].id] = a
AtInEmbeddingIndex(a) ==
    objs[a].embedding # NoEmbedding => Has(ms.embeddingIndex, objs[a].id)

\* the record w is storing is in the table or an index but not in all of them
PartiallyApplied(w) ==
    /\ InStore(w)
    /\ loc[w].addr # 0
    /\ AtInTable(loc[w].addr)
    /\ ~(/\ AtInTypeIndex(loc[w].addr)
         /\ AtInTimeIndex(loc[w].addr)
         /\ AtInKeywordIndex(loc[w].addr)
         /\ AtInEmbeddingIndex(loc[w].addr))

(* C4: no Query running concurrently with a Store observes a partially
   applied write: while the record a Store is inserting is in the table or in
   one index but not yet in all of type, time, keyword and embedding, no Query
   is between its RLock and RUnlock, and the storing goroutine holds ms.mu
   exclusively. *)
C4_NoPartialWriteObserved ==
    \A w \in Workers :
        PartiallyApplied(w)
            => /\ mu.writer = w /\ mu.readers = {}
               /\ \A q \in Workers : ~Observing(q)

\* a Store has put its record into the table and the type index only, while
\* the other worker's Query waits at RLock
C4_Witness ==
    \E w \in Workers : \E q \in Workers \ {w} :
        /\ PartiallyApplied(w)
        /\ pc[w] = "store_time"
        /\ pc[q] = "query_rlock"

(* C5: Store, CreateRelation, a decay pass and a consolidation pass run
   entirely under the exclusive lock: no two of them are in their critical
   sections at once, and none is while a Query holds shared access. *)
C5_WritersExclusive ==
    \A p \in Procs :
        InExclusive(p)
            => /\ mu.writer = p
               /\ mu.readers = {}
               /\ \A q \in Procs \ {p} : ~InExclusive(q)
               /\ \A q \in Procs : ~Observing(q)

\* the decay pass is in its body while a Store waits at Lock and a Query at RLock
C5_Witness ==
    /\ pc[DecayTask] = "decay_body"
    /\ \E w \in Workers : \E q \in Workers \ {w} :
         pc[w] = "store_lock" /\ pc[q] = "query_rlock"

(* C6: Store of a nil record, or of one with an empty id, an empty content or
   an importance outside [0,1], returns an error and leaves the table, every
   index and the relation graph as they were; nothing is evicted. *)
C6_InvalidStoreChangesNothing ==
    [][ \A req \in InvalidMemories(now) \cup {NilMemory} :
          Store(req) => /\ lastOp'.err = ErrValidation
                        /\ lastOp'.removed = {}
                        /\ UNCHANGED <<ms, objs, panicked>> ]_vars

\* an invalid Store was refused while the table was full
C6_Witness ==
    /\ lastOp.op = "Store" /\ lastOp.err = ErrValidation
    /\ ms.maxMemories >= 1 /\ TableSize = ms.maxMemories

(* C7: Store of an id already in the table returns a conflict error and
   changes nothing: the record under that id keeps its content, type and
   importance, and nothing is evicted, also when the table is full. *)
C7_DuplicateStoreChangesNothing ==
    [][ \A req \in ValidMemories(now) :
          (Has(ms.memories, req.id) /\ Store(req))
            => /\ lastOp'.err = ErrConflict
               /\ lastOp'.removed = {}
               /\ UNCHANGED <<ms, objs, panicked>> ]_vars

\* a second, different record was offered under a stored id while the table was full
C7_Witness ==
    /\ lastOp.op = "Store" /\ lastOp.err = ErrConflict
    /\ ms.maxMemories >= 1 /\ TableSize = ms.maxMemories
    /\ Has(ms.memories, "a")

(* C8: a decay pass lowers the importance of every record of the table by
   decay rate x hours since last access, then removes exactly the records
   whose new importance is below 0.1: every record left has importance >= 0.1
   and no removed record is left in the type, keyword or embedding index. *)
C8_DecayPass ==
    [][ StepOf("applyDecay")
        => LET decayed(id) == Mem(id).importance
                              - (now - Mem(id).lastAccess) * Mem(id).decay
               gone == {id \in Table : decayed(id) < DecayThreshold}
           IN /\ \A id \in Table : objs'[ms.memories[id]].importance = decayed(id)
              /\ DOMAIN ms'.memories = Table \ gone
              /\ lastOp'.removed = gone
              /\ \A id \in Table \ gone :
                   /\ ms'.memories[id] = ms.memories[id]
                   /\ objs'[ms'.memories[id]].importance >= DecayThreshold
              /\ \A id \in gone :
                   /\ ~InTypeIndex(ms', id)
                   /\ ~InKeywordIndex(ms', id)
                   /\ ~InEmbeddingIndex(ms', id) ]_vars

\* a pass removed a decayed record and kept another whose importance it lowered
C8_Witness ==
    /\ lastOp.op = "applyDecay"
    /\ lastOp.removed # {}
    /\ \E id \in Table : Mem(id).importance < P1.importance /\ Mem(id).decay > 0

(* C9: a consolidation pass turns exactly the short_term records with
   accessCount > 3 or importance > 0.7 into long_term records, moves their ids
   from the short_term set to the long_term set and multiplies the strength of
   each of their outgoing edges by 1.2, unclamped; every other record and edge
   is unchanged and the table keeps its records. *)
C9_ConsolidationPass ==
    [][ StepOf("consolidateMemories")
        => LET promoted == {id \in Table :
                              /\ Mem(id).type = ShortTerm
                              /\ \/ Mem(id).accessCount > ConsolidateAccess
                                 \/ Mem(id).importance > ConsolidateImportance}
           IN /\ ms'.memories = ms.memories
              /\ Len(objs') = Len(objs)
              /\ \A id \in promoted :
                   /\ objs'[ms.memories[id]] = [Mem(id) EXCEPT !.type = LongTerm]
                   /\ ~Has(ms'.typeIndex[ShortTerm], id)
                   /\ Has(ms'.typeIndex[LongTerm], id)
                   /\ ms'.typeIndex[LongTerm][id] = ms.memories[id]
              /\ \A a \in 1..Len(objs) :
                   (\A id \in promoted : ms.memories[id] # a) => objs'[a] = objs[a]
              /\ \A t \in MemoryTypes : \A id \in Ids \ promoted :
                   /\ Has(ms'.typeIndex[t], id) <=> Has(ms.typeIndex[t], id)
                   /\ Has(ms.typeIndex[t], id) => ms'.typeIndex[t][id] = ms.typeIndex[t][id]
              /\ DOMAIN ms'.relations = DOMAIN ms.relations
              /\ \A id \in DOMAIN ms.relations :
                   /\ Len(ms'.relations[id]) = Len(ms.relations[id])
                   /\ \A k \in 1..Len(ms.relations[id]) :
                        LET old == ms.relations[id][k]
                            new == ms'.relations[id][k]
                        IN IF id \in promoted
                           THEN /\ new.strength * 10 = old.strength * 12
                                /\ [new EXCEPT !.strength = 0] = [old EXCEPT !.strength = 0]
                           ELSE new = old
              /\ ms'.timeIndex = ms.timeIndex
              /\ ms'.keywordIndex = ms.keywordIndex
              /\ ms'.embeddingIndex = ms.embeddingIndex ]_vars

\* a pass promoted a record by its access count, raised an edge of it above
\* 1.0 and left a short_term record that met neither condition
C9_Witness ==
    /\ lastOp.op = "consolidateMemories"
    /\ \E id \in Table :
         /\ Mem(id).type = LongTerm
         /\ Mem(id).accessCount > ConsolidateAccess
         /\ Mem(id).importance <= ConsolidateImportance
         /\ Has(ms.relations, id)
         /\ \E k \in 1..Len(ms.relations[id]) : ms.relations[id][k].strength > StrScale
    /\ \E id \in Table : Mem(id).type = ShortTerm

(* C10: a successful Query changes nothing but lastAccess and accessCount, and
   those only on the records it returns, each of which has its accessCount
   raised by exactly one; content, type, embedding and importance of every
   record, the table, every index and the relation graph stay as they were. *)
C10_QueryFrame ==
    [][ (StepOf("Query") /\ lastOp'.err = NoError)
        => /\ ms' = ms
           /\ Len(objs') = Len(objs)
           /\ \A a \in 1..Len(objs) :
                IF a \in Range(lastOp'.results)
                THEN objs'[a] = [objs[a] EXCEPT !.lastAccess = now,
                                                !.accessCount = @ + 1]
                ELSE objs'[a] = objs[a] ]_vars

\* the third query in a row returned a record stored with accessCount 0, and
\* another record of the table was not returned
C10_Witness ==
    /\ lastOp.op = "Query" /\ lastOp.err = NoError
    /\ \E a \in Range(lastOp.results) : objs[a].accessCount = 3 /\ objs[a].content = CatDog
    /\ \E id \in Table : ~(ms.memories[id] \in Range(lastOp.results))

(* Views of a result list *)

NoDuplicates(results) ==
    \A i, j \in 1..Len(results) : results[i] = results[j] => i = j

\* the objects of the records now in the table that satisfy Test(id)
TableObjects(Test(_)) == {ms.memories[id] : id \in {i \in Table : Test(i)}}

(* C11: after Store(r) succeeds, a Query by r's type returns a record with r's
   id whose content, type, embedding and metadata are the values passed to
   Store; the embedding is not the normalized copy of the embedding index. *)
C11_StoreThenQueryByType ==
    [][ /\ (StepOf("Store") /\ lastOp'.err = NoError)
             => \A req \in ValidMemories(now) :
                  Store(req) => /\ objs'[Len(objs')] = req
                                /\ ms'.memories[req.id] = Len(objs')
        /\ ( /\ lastOp.op = "Store" /\ lastOp.err = NoError
             /\ StepOf("Query") /\ lastOp'.strategy = "type"
             /\ lastOp'.criteria.memoryType = objs[Len(objs)].type )
             => \E k \in 1..Len(lastOp'.results) :
                      LET stored == objs[Len(objs)]
                          got == objs'[lastOp'.results[k]]
                      IN /\ got.id = stored.id
                         /\ got.content = stored.content
                         /\ got.type = stored.type
                         /\ got.embedding = stored.embedding
                         /\ got.metadata = stored.metadata ]_vars

\* a Store of a record with an embedding, then the Query by its type that
\* returns it with the embedding as passed, while the index holds another vector
C11_Witness ==
    /\ lastOp.op = "Query" /\ lastOp.strategy = "type"
    /\ calls = 2
    /\ lastOp.results = <<1>>
    /\ objs[1].embedding = P1.embedding
    /\ ms.embeddingIndex[objs[1].id] # objs[1].embedding

(* C12: a keyword query matches a record only when the keyword, compared
   case-insensitively, equals one of the record's whole content tokens: a
   keyword that is a proper prefix or substring of a token matches nothing,
   and any letter-case variant of a token matches. *)
C12_KeywordsMatchWholeTokens ==
    [][ (StepOf("Query") /\ lastOp'.strategy = "keywords")
          => Range(lastOp'.results) =
               TableObjects(LAMBDA id :
                   \E k \in 1..Len(lastOp'.criteria.keywords) :
                       ToLower(lastOp'.criteria.keywords[k])
                           \in IndexWords(Mem(id).content)) ]_vars

\* a keyword query returned a record holding the token "dog" and not the
\* record in the table whose token is "dog5"
C12_Witness ==
    /\ lastOp.op = "Query" /\ lastOp.strategy = "keywords"
    /\ lastOp.criteria.keywords = <<<<"d", "o", "g">>, <<"c", "a">>>>
    /\ \E k \in 1..Len(lastOp.results) : objs[lastOp.results[k]].content = CatDog
    /\ \E id \in Table :
         /\ Mem(id).content = AbDog5
         /\ ~(ms.memories[id] \in Range(lastOp.results))

NormalizedKeywords(keywords) ==
    UNION {IndexWords(keywords[k]) : k \in 1..Len(keywords)}

(* C13: a keyword query normalizes every query keyword as content is (split on
   non-alphanumerics, drop tokens shorter than 3, lowercase) and returns,
   without duplicates, exactly the records whose token set holds at least one
   of the resulting tokens.  Fails: findByKeywords only lowercases the
   keyword, so the keyword "Cat dog" finds nothing. *)
C13_KeywordsNormalizedAsContent ==
    [][ (StepOf("Query") /\ lastOp'.strategy = "keywords")
          => /\ NoDuplicates(lastOp'.results)
             /\ Range(lastOp'.results) =
                  TableObjects(LAMBDA id :
                      IndexWords(Mem(id).content)
                          \cap NormalizedKeywords(lastOp'.criteria.keywords) # {}) ]_vars

(* Views of a similarity query *)

\* the score findSimilar gives the object at address a for the query vector q
Score(a, q) == dotProduct(normalizeVector(q), normalizeVector(objs[a].embedding))

\* the objects of the records in the table that carry an embedding
Embedded == TableObjects(LAMBDA id : Mem(id).embedding # NoEmbedding)

Min(x, y) == IF x < y THEN x ELSE y

SimilarityStep == StepOf("Query") /\ lastOp'.strategy = "similarity"

(* C14: a similarity query with limit K returns exactly
   min(K, number of stored records with an embedding) records, in strictly
   descending order of cosine similarity to the query vector.  Fails: a query
   vector longer than a stored embedding makes dotProduct index out of range,
   and the query returns nothing; and two records of equal similarity come
   out in either order, never strictly ordered. *)
C14_SimilarStrictlyDescending ==
    [][ SimilarityStep
          => LET results == lastOp'.results
                 criteria == lastOp'.criteria
             IN /\ Len(results) =
                     Min(EffectiveLimit(criteria), Cardinality(Embedded))
                /\ \A i, j \in 1..Len(results) :
                     i < j => Score(results[i], criteria.embedding)
                                > Score(results[j], criteria.embedding) ]_vars

(* What findSimilar does give when no stored embedding is shorter than the
   query vector: exactly min(K, number of stored records with an embedding)
   records in descending order of similarity, records of equal similarity in
   either order. *)
SimilarDescendingWithTies ==
    [][ SimilarityStep
          => LET results == lastOp'.results
                 criteria == lastOp'.criteria
             IN /\ Len(results) =
                     Min(EffectiveLimit(criteria), Cardinality(Embedded))
                /\ \A i, j \in 1..Len(results) :
                     i < j => Score(results[i], criteria.embedding)
                                >= Score(results[j], criteria.embedding) ]_vars

(* C15: the records a similarity query with limit K returns are K of the
   highest-scoring ones: no record with an embedding that is left out scores
   strictly higher than a returned record, whatever the order in which the
   embedding index is iterated. *)
C15_SimilarReturnsTopK ==
    [][ SimilarityStep
          => /\ Range(lastOp'.results) \subseteq Embedded
             /\ \A out \in Embedded \ Range(lastOp'.results) :
                \A k \in 1..Len(lastOp'.results) :
                   Score(out, lastOp'.criteria.embedding)
                       <= Score(lastOp'.results[k], lastOp'.criteria.embedding) ]_vars

\* a similarity query with limit 1 left out three records, one of them with a
\* strictly lower score than the one returned
C15_Witness ==
    /\ lastOp.op = "Query" /\ lastOp.strategy = "similarity"
    /\ lastOp.criteria.embedding = <<1, 0, 0>> /\ lastOp.criteria.limit = 1
    /\ Len(lastOp.results) = 1
    /\ Cardinality(Embedded \ Range(lastOp.results)) = 3
    /\ objs[lastOp.results[1]].embedding = <<4, 3, 0>>
    /\ \E out \in Embedded \ Range(lastOp.results) :
         Score(out, <<1, 0, 0>>) < Score(lastOp.results[1], <<1, 0, 0>>)

(* Views of the relation graph *)

\* the ids the edges kept under id point to
Successors(s, id) ==
    IF Has(s.relations, id)
    THEN {s.relations[id][i].to : i \in 1..Len(s.relations[id])}
    ELSE {}

\* the ids reachable from start by following at most n edges
RECURSIVE ReachWithin(_, _, _)
ReachWithin(s, start, n) ==
    IF n = 0
    THEN {start}
    ELSE LET near == ReachWithin(s, start, n - 1)
         IN near \cup UNION {Successors(s, id) : id \in near}

\* the least number of edges from start to id, for id within n edges
Hops(s, start, id, n) ==
    CHOOSE h \in 0..n :
        /\ id \in ReachWithin(s, start, h)
        /\ h > 0 => ~(id \in ReachWithin(s, start, h - 1))

RelatedStep == StepOf("Query") /\ lastOp'.strategy = "related"

(* C16: related(start, depth) never returns the start record, never returns
   the same record twice, and returns only records that are in the table and
   reachable from start by following at most depth relation edges. *)
C16_RelatedSafe ==
    [][ RelatedStep
          => LET results == lastOp'.results
                 start == lastOp'.criteria.memoryID
                 depth == lastOp'.criteria.depth
             IN /\ NoDuplicates(results)
                /\ \A k \in 1..Len(results) :
                     /\ AtInTable(results[k])
                     /\ objs[results[k]].id # start
                     /\ objs[results[k]].id \in ReachWithin(ms, start, depth) ]_vars

\* related("a", 3) returned two records on a graph where an edge leads back
\* to "a", "a" has a self-loop, and the edge a -> b was created twice
C16_Witness ==
    /\ lastOp.op = "Query" /\ lastOp.strategy = "related"
    /\ lastOp.criteria.memoryID = "a" /\ lastOp.criteria.depth = 3
    /\ Len(lastOp.results) = 2
    /\ "a" \in Successors(ms, "a")
    /\ \E id \in Table \ {"a"} : "a" \in Successors(ms, id)
    /\ Has(ms.relations, "a") /\ Len(ms.relations["a"]) >= 3

(* C17: related(start, depth) is a breadth-first traversal up to depth hops:
   it returns every record in the table reachable from start by a path of 1
   to depth relation edges, in order of first discovery; depth = 1 returns
   the direct successors of start.  Fails: the loop runs depth times starting
   with the frontier {start}, so it returns the records within depth - 1
   hops, and nothing for depth = 1. *)
C17_RelatedBreadthFirstToDepth ==
    [][ RelatedStep
          => LET results == lastOp'.results
                 start == lastOp'.criteria.memoryID
                 depth == lastOp'.criteria.depth
             IN /\ Range(results) =
                     TableObjects(LAMBDA id :
                         id # start /\ id \in ReachWithin(ms, start, depth))
                /\ \A i, j \in 1..Len(results) :
                     i < j => Hops(ms, start, objs[results[i]].id, depth)
                                <= Hops(ms, start, objs[results[j]].id, depth) ]_vars

(* C18: a temporal query with window (start, end) returns exactly the records
   now in the table whose creation timestamp lies inside the window, each of
   them once, after any sequence of stores, evictions and decay removals.
   Fails: a removed record stays in its bucket's member list and is still
   returned; and the retention cleanup drops a bucket older than 7 days
   together with the stored records it lists. *)
C18_TemporalReturnsTableRecords ==
    [][ (StepOf("Query") /\ lastOp'.strategy = "temporal")
          => LET results == lastOp'.results
                 criteria == lastOp'.criteria
             IN /\ NoDuplicates(results)
                /\ Range(results) =
                     TableObjects(LAMBDA id :
                         /\ Mem(id).timestamp > criteria.startTime
                         /\ Mem(id).timestamp < criteria.endTime) ]_vars

\* the edge list kept under id
EdgesFrom(s, id) == IF Has(s.relations, id) THEN s.relations[id] ELSE <<>>

(* C19: CreateRelation returns an error when from, to or the relation type is
   empty, or when either endpoint id is not in the table, and then adds no
   edge; otherwise it appends exactly one edge (from, to, type, strength) to
   the edge list keyed by from, the strength being the one given when it is in
   [0,1] and 0.5 otherwise; every other edge list stays as it was. *)
C19_CreateRelationContract ==
    [][ StepOf("CreateRelation")
          => \A r \in RelationArgs :
               CreateRelation(r.from, r.to, r.type, r.strength)
                   => IF \/ r.from = NoId \/ r.to = NoId \/ r.type = ""
                         \/ ~(r.from \in Table) \/ ~(r.to \in Table)
                      THEN /\ lastOp'.err # NoError
                           /\ ms'.relations = ms.relations
                      ELSE /\ lastOp'.err = NoError
                           /\ EdgesFrom(ms', r.from) =
                                Append(EdgesFrom(ms, r.from),
                                       [from |-> r.from, to |-> r.to, type |-> r.type,
                                        strength |->
                                            IF r.strength >= 0 /\ r.strength <= StrScale
                                            THEN r.strength ELSE DefaultStrength])
                           /\ \A id \in (DOMAIN ms.relations \cup DOMAIN ms'.relations)
                                          \ {r.from} :
                                EdgesFrom(ms', id) = EdgesFrom(ms, id) ]_vars

\* CreateRelation(b, a, strength 1.5) succeeded after a -> b: "b" has one edge
\* of strength 0.5, and the edge list of "a" is as it was
C19_Witness ==
    /\ lastOp.op = "CreateRelation" /\ lastOp.err = NoError
    /\ Len(EdgesFrom(ms, "b")) = 1
    /\ EdgesFrom(ms, "b")[1].to = "a"
    /\ EdgesFrom(ms, "b")[1].strength = DefaultStrength
    /\ Len(EdgesFrom(ms, "a")) = 1

RemovalStep == calls' = calls + 1 /\ lastOp'.op \in {"Store", "applyDecay"}

(* C20 as stated: removing a record by eviction or by decay retracts no
   relation edge: the edges whose source or whose target is the removed
   record stay in the relation graph, and traversal skips the missing
   endpoint.  Fails: removeMemory deletes the edge list kept under the
   removed id, which holds the edges whose source it is. *)
C20_RemovalKeepsAllEdges ==
    [][ /\ RemovalStep => ms'.relations = ms.relations
        /\ RelatedStep => \A k \in 1..Len(lastOp'.results) : AtInTable(lastOp'.results[k])
      ]_vars

(* C20 amended: removing a record by eviction or by decay deletes the edge
   list kept under the removed id (the edges whose source it is) and retracts
   no other edge: the edges whose target is the removed record stay in the
   relation graph as dangling edges, and traversal skips the missing
   endpoint. *)
C20_RemovalKeepsIncomingEdges ==
    [][ /\ RemovalStep
          => ms'.relations =
               [id \in DOMAIN ms.relations \ lastOp'.removed |-> ms.relations[id]]
        /\ RelatedStep => \A k \in 1..Len(lastOp'.results) : AtInTable(lastOp'.results[k])
      ]_vars

\* a removal took a record that had an edge of its own and was the target of
\* an edge: its edge list is gone, the edge pointing to it is still there
C20_Witness ==
    /\ lastOp.op \in {"Store", "applyDecay"}
    /\ \E gone \in lastOp.removed :
         /\ ~(gone \in Table)
         /\ ~Has(ms.relations, gone)
         /\ \E id \in Table : gone \in Successors(ms, id)

(* C21: Query returns an error, updating no record's access statistics, when
   the query type is empty, the limit is negative, or the limit exceeds 1000;
   a limit of 0 is treated as 10 and every limit from 1 to 1000 is accepted. *)
C21_QueryValidation ==
    [][ StepOf("Query")
          => IF lastOp'.err = ErrValidation
             THEN /\ objs' = objs
                  /\ \A criteria \in Queries(now) :
                       Query(criteria)
                           => \/ criteria.type = ""
                              \/ criteria.limit < 0
                              \/ criteria.limit > 1000
             ELSE LET criteria == lastOp'.criteria
                  IN /\ criteria.type # ""
                     /\ criteria.limit >= 0
                     /\ criteria.limit <= 1000
                     /\ (criteria.limit = 0 /\ lastOp'.err = NoError)
                            => lastOp'.results \in
                                 QueryResults(ms, objs, [criteria EXCEPT !.limit = 10]) ]_vars

\* a similarity query with limit 0 was accepted and returned two records,
\* whose access counts it raised
C21_Witness ==
    /\ lastOp.op = "Query" /\ lastOp.err = NoError
    /\ lastOp.criteria.limit = 0
    /\ Len(lastOp.results) = 2
    /\ \A a \in Range(lastOp.results) : objs[a].accessCount = 1

(* C22: for every query strategy (keywords, type, temporal, related,
   similarity), a successful Query returns at most limit records, and at most
   10 records when the limit is given as 0.  Fails: only findSimilar is given
   the limit; the other strategies return every match. *)
C22_QueryReturnsAtMostLimit ==
    [][ (StepOf("Query") /\ lastOp'.err = NoError)
          => Len(lastOp'.results) <=
               (IF lastOp'.criteria.limit = 0 THEN 10 ELSE lastOp'.criteria.limit) ]_vars

(* C23: in every reachable state GetStats reports total_memories equal to the
   table size, by_type counts equal to the number of table records that
   currently have each type (so the five counts sum to the total, also after
   consolidation, eviction and decay), and capacity_used equal to the table
   size divided by the configured maximum. *)
C23_StatsMatchTable ==
    [][ StepOf("GetStats")
          => LET stats == lastOp'.stats
             IN /\ stats.total_memories = TableSize
                /\ \A t \in MemoryTypes :
                     stats.by_type[t] = Cardinality({id \in Table : Mem(id).type = t})
                /\ stats.by_type[ShortTerm] + stats.by_type[LongTerm]
                     + stats.by_type[Episodic] + stats.by_type[Semantic]
                     + stats.by_type[Procedural] = stats.total_memories
                /\ stats.capacity_used = <<TableSize, config.MaxMemories>> ]_vars

\* GetStats ran on a table of two records, one promoted to long_term by a
\* consolidation pass and one stored through StoreMemory as semantic
C23_Witness ==
    /\ lastOp.op = "GetStats"
    /\ lastOp.stats.total_memories = 2
    /\ lastOp.stats.by_type[LongTerm] = 1
    /\ lastOp.stats.by_type[Semantic] = 1
    /\ lastOp.stats.capacity_used = <<2, 2>>

(* C24: GetStats reports total_relations equal to the number of relation
   edges currently held in the relation graph: each successful CreateRelation
   raises it by one, also when the source record already has outgoing edges.
   Fails: GetStats reports the number of records that have outgoing edges. *)
C24_StatsCountEdges ==
    [][ StepOf("GetStats") => lastOp'.stats.total_relations = EdgeCount(ms) ]_vars

(* C25: StoreMemory fails only when the content is empty or the type is not
   one of the five types (an empty type defaults to short_term): every other
   call, including calls issued back-to-back or concurrently, creates a record
   under a generated id that differs from every id already in the table.
   Fails: the id is the clock reading, and two calls that read the same value
   generate the same id; the second is refused as a duplicate. *)
C25_StoreMemoryCreatesFreshRecord ==
    [][ StepOf("StoreMemory")
          => \A args \in StoreMemoryArgs :
               StoreMemory(args)
                 => IF \/ args.content = <<>>
                       \/ (args.type # "" /\ ~(args.type \in MemoryTypes))
                    THEN lastOp'.err # NoError
                    ELSE /\ lastOp'.err = NoError
                         /\ \E id \in DOMAIN ms'.memories \ DOMAIN ms.memories :
                              LET mem == objs'[ms'.memories[id]]
                              IN /\ mem.content = args.content
                                 /\ mem.type = (IF args.type = "" THEN ShortTerm
                                                ELSE args.type) ]_vars

(* C26: Shutdown is idempotent: calling it a second or any later time
   completes without failure and leaves the store in the same state as after
   the first call.  Fails: the second call closes the closed shutdownChan,
   which panics. *)
C26_ShutdownIdempotent ==
    [][ StepOf("Shutdown")
          => /\ lastOp'.err = NoError
             /\ ~panicked'
             /\ ms.shutdownClosed => ms' = ms ]_vars

(* C27: after Shutdown is called, both the decay task and the consolidation
   task eventually exit (neither keeps running passes forever), while Store
   and Query calls that are in flight at that moment are not interrupted and
   run to completion.  A panic ends the process and every goroutine with it. *)
C27_ShutdownStopsTasksOnly ==
    /\ ms.ctxDone ~> \/ panicked
                     \/ pc[DecayTask] = "exited" /\ pc[ConsolidationTask] = "exited"
    /\ \A w \in Workers :
         (ms.ctxDone /\ pc[w] # "idle") ~> (pc[w] = "idle" \/ panicked)
    /\ [][ (~ms.ctxDone /\ ms'.ctxDone)
             => \A w \in Workers : pc'[w] = pc[w] /\ loc'[w] = loc[w] ]_vars

\* Shutdown has been called and both tasks have exited while a worker is
\* still inside the Store call it was in
C27_Witness ==
    /\ ms.ctxDone /\ ~panicked
    /\ pc[DecayTask] = "exited" /\ pc[ConsolidationTask] = "exited"
    /\ \E w \in Workers : pc[w] = "store_put"

(* C28: when several workers concurrently Store records with pairwise
   distinct ids while other workers Query, and the total number stays within
   capacity, every Store succeeds and afterwards the table contains all of
   the stored records: no store is lost or overwritten by an interleaving.
   Step by step: a Store is refused only for an id that is in the table; a
   Store that returns success leaves the table holding its own object under
   its id; and while the table is below capacity no step other than a decay
   pass takes a record out of the table or replaces it. *)
C28_ConcurrentStoresAllKept ==
    [][ /\ \A w \in Workers :
             (pc[w] = "store_unlock" /\ pc'[w] = "idle")
                 => /\ Has(ms.memories, loc[w].req.id)
                    /\ IF ms.memories[loc[w].req.id] = loc[w].addr
                       THEN lastOp'.err = NoError
                       ELSE lastOp'.err = ErrConflict /\ loc[w].addr = 0
        /\ (TableSize < ms.maxMemories /\ pc[DecayTask] # "decay_body")
             => \A id \in Table :
                  Has(ms'.memories, id) /\ ms'.memories[id] = ms.memories[id]
      ]_vars

\* the second of two concurrent Stores has returned while a Query is in
\* flight, and the table holds both records
C28_Witness ==
    /\ lastOp.op = "Store" /\ lastOp.err = NoError
    /\ Table = {"a", "b"}
    /\ \E w \in Workers : pc[w] \in {"query_rlock", "query_find", "query_read"}
    /\ \E w \in Workers : pc[w] = "idle"

Servers == {p \in Peers : cm[p].pc = "serving"}
Clients == {p \in Peers : cm[p].pc = "runAsClient"}

(* C29: with sharing enabled, the first process becomes the server and every
   process started afterwards connects to it as a client, so that all clients
   operate on one shared memory store; at no time do two processes both act
   as server, including when two processes start at nearly the same moment.
   Fails: between the refused dial and the Listen of one process another
   process can go the same way; the later os.Remove unlinks the socket of the
   earlier server and both serve a store of their own. *)
C29_OneSharedServer ==
    /\ Cardinality(Servers) <= 1
    /\ \A p \in Clients : cm[p].conn \in Servers

(* C30: the decay task runs at the interval given by the --decay-interval
   configuration value (5 minutes when the flag is not given): the decay
   interval used by the store created at start-up equals the configured
   value.  Fails: NewMemoryStore is given the maximum only and sets the
   interval to 5 minutes whatever the flag says. *)
C30_DecayIntervalFromConfig == ms.decayInterval = config.DecayInterval


\* goroutine w is inside the loops of findRelated
Traversing(w) == pc[w] \in {"related_outer", "related_inner"}

(* C31: related(start, depth) terminates for every relation graph, cycles and
   self-loops included: a traversal that has started returns; it processes at
   most depth frontiers; and it expands each node at most once: an iteration
   over an id already visited changes nothing, every other iteration adds its
   id to the visited set. *)
C31_RelatedTerminates ==
    /\ \A w \in Workers : Traversing(w) ~> (pc[w] = "idle")
    /\ [][ \A w \in Workers :
             (Traversing(w) /\ Traversing(w)')
               => /\ loc'[w].d <= loc'[w].criteria.depth
                  /\ (pc[w] = "related_inner" /\ loc[w].k <= Len(loc[w].queue))
                       => LET id == loc[w].queue[loc[w].k]
                          IN IF id \in loc[w].visited
                             THEN /\ loc'[w].visited = loc[w].visited
                                  /\ loc'[w].results = loc[w].results
                                  /\ loc'[w].nextQueue = loc[w].nextQueue
                             ELSE loc'[w].visited = loc[w].visited \cup {id} ]_vars

\* related("a", 4) has returned "b" and "c" on a graph with the cycle
\* a -> b -> c -> a, a self-loop on "a" and the edge a -> b made twice
C31_Witness ==
    /\ lastOp.op = "Query" /\ lastOp.strategy = "related"
    /\ lastOp.criteria.depth = 4
    /\ Len(lastOp.results) = 2
    /\ "a" \in Successors(ms, "a") /\ "a" \in Successors(ms, "c")
    /\ "c" \in Successors(ms, "b")
    /\ Has(ms.relations, "a") /\ Len(ms.relations["a"]) = 3


(* C32: Query updates accessCount and lastAccess while it holds only the read
   lock.  Two overlapping Queries that return the same record can interleave
   the load and the store of accessCount++, so that the count rises by less
   than the number of queries; a Query that overlaps no other Query (none was
   in progress when it was called, none was called before it returned) leaves
   every record it returns with its accessCount raised by exactly 1. *)
C32_NonOverlappingQueriesCount ==
    [][ \A w \in Workers :
          ( /\ pc[w] = "query_runlock" /\ pc'[w] = "idle"
            /\ loc[w].alone
            /\ calls = loc[w].began + 1 )
            => \A k \in 1..Len(loc[w].results) :
                 LET a == loc[w].results[k]
                 IN objs'[a].accessCount = loc[w].before[a] + 1 ]_vars

\* the lost update: two Queries that both returned record "a" have finished,
\* and its accessCount, 0 before them, is 1
C32_Witness ==
    /\ calls = 2
    /\ \A w \in Workers : pc[w] = "idle"
    /\ lastOp.op = "Query" /\ lastOp.err = NoError
    /\ \E k \in 1..Len(lastOp.results) : objs[lastOp.results[k]].id = "a"
    /\ Mem("a").accessCount = 1


(* Views of the content of a record *)

IsAlnum(c) == ~IsSeparator(c)

\* content[i..j] is a maximal run of letters and digits
IsToken(content, i, j) ==
    /\ i <= j
    /\ \A k \in i..j : IsAlnum(content[k])
    /\ i > 1 => IsSeparator(content[i - 1])
    /\ j < Len(content) => IsSeparator(content[j + 1])

\* the lowercased tokens of content that have at least 3 characters
LongTokens(content) ==
    {ToLower(SubSeq(content, i, j)) :
        <<i, j>> \in {x \in (1..Len(content)) \X (1..Len(content)) :
                        IsToken(content, x[1], x[2]) /\ x[2] - x[1] + 1 >= 3}}

(* C33: in every state of the running process the keyword index maps a token
   t to an id i if and only if record i is in the table and t is a lowercased
   content token of i with at least 3 characters; the entry of t under i is
   the record itself; and no token has an empty id set.  (A process that
   panicked inside Store has ended: its half-written store is seen by no
   later call.) *)
C33_KeywordIndexExact ==
    ~panicked =>
      /\ \A t \in DOMAIN ms.keywordIndex :
           /\ DOMAIN ms.keywordIndex[t] # {}
           /\ \A i \in DOMAIN ms.keywordIndex[t] :
                /\ i \in Table
                /\ ms.keywordIndex[t][i] = ms.memories[i]
                /\ t \in LongTokens(Mem(i).content)
      /\ \A i \in Table : \A t \in LongTokens(Mem(i).content) :
           Has(ms.keywordIndex, t) /\ Has(ms.keywordIndex[t], i)

\* record "b" (content "cat") has been removed while "a" (content "Cat dog")
\* stays: the token cat, which listed both, lists "a" alone
C33_Witness ==
    /\ ~panicked
    /\ lastOp.removed = {"b"}
    /\ Table = {"a"}
    /\ Mem("a").content = CatDog
    /\ DOMAIN ms.keywordIndex = {<<"c", "a", "t">>, <<"d", "o", "g">>}
    /\ DOMAIN ms.keywordIndex[<<"c", "a", "t">>] = {"a"}


\* the time index once the buckets with an hour key older than 7 days before t
\* are gone, every other bucket as it was
WithoutStaleBuckets(index, t) ==
    [b \in {x \in DOMAIN index : x >= BucketKey(t - RetentionUnits)} |-> index[b]]

(* C34: retention cleanup runs as part of every record removal; it deletes
   exactly the time buckets whose hour key is older than 7 days before the
   current time and leaves every newer bucket and its member list unchanged.
   So a decay pass that removes records leaves the time index without its
   stale buckets and otherwise as it was, and a Store that evicts leaves it so
   but for the bucket entry of the record it inserts afterwards. *)
C34_CleanupDeletesStaleBucketsOnly ==
    [][ (calls' = calls + 1 /\ lastOp'.removed # {})
          => LET cleaned == WithoutStaleBuckets(ms.timeIndex, now)
             IN ms'.timeIndex =
                  IF lastOp'.op = "Store" /\ lastOp'.err = NoError
                  THEN addToTimeIndex([ms EXCEPT !.timeIndex = cleaned],
                                      objs', Len(objs')).timeIndex
                  ELSE cleaned ]_vars

\* a removal has deleted the bucket of hour 0, where a record with an unset
\* Timestamp had been listed, and kept a bucket of the last 7 days with the
\* two records listed in it
C34_Witness ==
    /\ lastOp.removed # {}
    /\ \E a \in 1..Len(objs) :
         /\ objs[a].timestamp = ZeroTime
         /\ ~Has(ms.timeIndex, BucketKey(ZeroTime))
    /\ \E b \in DOMAIN ms.timeIndex :
         b >= BucketKey(now - RetentionUnits) /\ Len(ms.timeIndex[b]) = 2


(* C35: every record that is in the table is a member of the time bucket of
   its creation hour in every state: removing one record, and the retention
   cleanup that this removal runs, never drops a different record that is
   still stored from the time index.  Fails: the cleanup deletes a bucket
   older than 7 days together with the stored records listed in it. *)
C35_TableRecordsInTheirBucket ==
    ~panicked =>
      \A id \in Table :
        LET bucket == BucketKey(Mem(id).timestamp)
        IN /\ Has(ms.timeIndex, bucket)
           /\ \E k \in 1..Len(ms.timeIndex[bucket]) :
                ms.timeIndex[bucket][k] = ms.memories[id]


(* C36: every embedding held by a stored record and by the embedding index
   has the configured dimension: Store does not admit a record whose
   embedding has another length, so a similarity query never takes the dot
   product of vectors of different lengths (and so never fails in it).
   Fails: Store never looks at the length of an embedding. *)
C36_EmbeddingsHaveDimension ==
    /\ \A id \in Table :
         Mem(id).embedding # NoEmbedding => Len(Mem(id).embedding) = ms.dimension
    /\ \A id \in DOMAIN ms.embeddingIndex :
         Len(ms.embeddingIndex[id]) = ms.dimension
    /\ ~(lastOp.op = "Query" /\ lastOp.err = Panic)


(* C37: CreateRelation never rejects a call because its strength is outside
   [0,1]: a call whose ids and type pass and whose records exist succeeds
   whatever its strength, and the edge it appends has the given strength when
   that is in [0,1] and 0.5 otherwise, so a strength in [0,1] in either case;
   whereas Store rejects a record whose importance is outside [0,1] and
   changes nothing. *)
C37_StrengthClampedImportanceRejected ==
    /\ [][ \A r \in StrengthArgs :
             ( /\ CreateRelation(r.from, r.to, r.type, r.strength)
               /\ r.type # "" /\ r.from \in Table /\ r.to \in Table )
               => LET edges == EdgesFrom(ms', r.from)
                      edge == edges[Len(edges)]
                  IN /\ lastOp'.err = NoError
                     /\ Len(edges) = Len(EdgesFrom(ms, r.from)) + 1
                     /\ edge.strength >= 0 /\ edge.strength <= StrScale
                     /\ edge.strength = IF r.strength < 0 \/ r.strength > StrScale
                                        THEN DefaultStrength ELSE r.strength ]_vars
    /\ [][ \A req \in InvalidMemories(now) :
             (Store(req) /\ (req.importance < 0 \/ req.importance > ImpScale))
               => /\ lastOp'.err = ErrValidation
                  /\ UNCHANGED <<ms, objs>> ]_vars

\* a CreateRelation with a strength outside [0,1] has succeeded on a store
\* that holds an edge of strength 0.5, which no call asked for
C37_Witness ==
    /\ lastOp.op = "CreateRelation" /\ lastOp.err = NoError
    /\ \E id \in Table :
         /\ EdgesFrom(ms, id) # <<>>
         /\ EdgesFrom(ms, id)[Len(EdgesFrom(ms, id))].strength = DefaultStrength
    /\ \A r \in StrengthArgs : r.strength # DefaultStrength


(* C38: MemoryStore.Store of a record whose type is not one of the five
   cognitive types returns an error instead of crashing and leaves the table
   and every index unchanged, so every record in the table has one of the
   five types and is a member of the type set of its current type.  Fails:
   Store checks no type; the assignment into the nil type set panics after
   the record has been put into the table. *)
C38_StoreRejectsUnknownType ==
    [][ /\ \A req \in BogusMemories(now) :
             Store(req) => /\ ~panicked'
                           /\ lastOp'.err = ErrValidation
                           /\ UNCHANGED <<ms, objs>>
        /\ \A id \in DOMAIN ms'.memories :
             LET mem == objs'[ms'.memories[id]]
             IN /\ mem.type \in MemoryTypes
                /\ Has(ms'.typeIndex[mem.type], id) ]_vars


(* Views of the mutexes *)

HoldsStoreLock(p) == mu.writer = p \/ p \in mu.readers
WaitsForStoreLock(p) ==
    /\ pc[p] = "in_call" /\ Todo(p) # <<>>
    /\ Todo(p)[1].on = "ms" /\ Todo(p)[1].do \in {"Lock", "RLock"}

(* C39: no interleaving of Store, Query, CreateRelation, GetStats, decay
   passes and consolidation passes deadlocks: a goroutine holds an index mutex
   only while it holds ms.mu, none holds an index mutex while it waits for
   ms.mu, a goroutine that has returned holds no mutex, and every call or
   pass that has started returns, unless the process has ended in a panic. *)
C39_NoDeadlock ==
    /\ [][ ~panicked' =>
             \A p \in Procs :
               /\ Held(p)' # {} => HoldsStoreLock(p)'
               /\ WaitsForStoreLock(p)' => Held(p)' = {}
               /\ pc'[p] = "idle" => Held(p)' = {} /\ ~HoldsStoreLock(p)' ]_vars
    /\ (\E p \in Procs : pc[p] = "in_call")
         ~> (panicked \/ \A p \in Procs : pc[p] = "idle")

\* a Query holds the read locks of ms.mu and of the keyword index, a Store
\* waits for ms.mu, and the table is full: the Store will evict
C39_Witness ==
    /\ ~panicked
    /\ \E q \in Workers :
         /\ q \in mu.readers
         /\ <<"keywordIndex", "R">> \in Held(q)
         /\ \E w \in Workers \ {q} : WaitsForStoreLock(w) /\ loc[w].op = "Store"
    /\ TableSize >= 1 /\ TableSize = ms.maxMemories


(* C40: consolidation is idempotent when nothing happens in between: a pass
   run immediately after another pass changes no record, no type set and no
   edge, so the outgoing edges of a record are multiplied by 1.2 once, at the
   pass that promotes it, and not again at the next pass. *)
C40_ConsolidationIdempotent ==
    [][ (lastOp.op = "consolidateMemories" /\ StepOf("consolidateMemories"))
          => /\ objs' = objs
             /\ ms'.typeIndex = ms.typeIndex
             /\ ms'.relations = ms.relations
             /\ ms'.memories = ms.memories ]_vars

\* a pass has just run and another can run now: record "a" is long_term and
\* its edge to "b" has strength 1.2; "b", accessed 3 times, is still short_term
C40_Witness ==
    /\ lastOp.op = "consolidateMemories"
    /\ Running
    /\ Table = {"a", "b"}
    /\ Mem("a").type = LongTerm /\ Mem("b").type = ShortTerm
    /\ Has(ms.typeIndex[ShortTerm], "b")
    /\ Len(EdgesFrom(ms, "a")) = 1
    /\ EdgesFrom(ms, "a")[1].to = "b"
    /\ EdgesFrom(ms, "a")[1].strength = Strengthen(StrScale)

====
